---------------------------- MODULE Spec2Model ----------------------------
(***************************************************************************)
(* CoviDash: the two-tier DataCache (covidash/data/cache.py), the retry    *)
(* loop of DataFetcher.fetch_with_retry (data/fetcher.py), the refresh     *)
(* pipeline get_covid_tracker_data (data/__init__.py) and the Flask /      *)
(* scheduler entry points that share app.covid_data (covidash/app.py).     *)
(*                                                                         *)
(* The specifications of this module share its variables:                  *)
(*   SpecCache  one DataCache instance driven by arbitrary calls and time  *)
(*   SpecFetch  one call of fetch_with_retry against a scripted endpoint   *)
(*   SpecApp    request threads and the scheduler thread on one app object *)
(*   SpecStore  the same instance with failing removals, the introspection *)
(*              call and a key ending in '_meta'                           *)
(*   SpecPipe   one run of fetch_major_cities_data and process_cities_data *)
(*   SpecLock   threads calling one DataCache instance statement by        *)
(*              statement under its RLock                                  *)
(*   SpecTiers  one DataCache instance on which no file operation fails    *)
(*   SpecSingleton  threads calling get_cache() statement by statement     *)
(*   SpecProc   format_number, get_marker_color and get_statistics_summary *)
(*              of DataProcessor (data/processor.py) on drawn inputs       *)
(***************************************************************************)
EXTENDS Integers, Sequences, FiniteSets, TLC

\* ------------------------------------------------------------------ bounds
\* number of clock ticks the wall clock may advance
MaxTicks == 2
\* max_age_hours is drawn from 0..MaxAgeHours at construction
MaxAgeHours == 2

\* max_retries is drawn from 0..MaxRetries at the call
MaxRetries == 3

\* number of datasets the upstream serves before it stays down
MaxDatasets == 2
\* number of clock ticks in SpecApp
MaxAppTicks == 1

\* seconds the wall clock advances per Tick (one hour)
TickSeconds == 3600
\* the 3600 of "max_age_hours * 3600"
SecondsPerHour == 3600
\* seconds the wall clock advances per Tick in SpecApp (a day, the default
\* UPDATE_INTERVAL_HOURS)
AppTickSeconds == 86400
\* max_age_hours of get_cache()
DefaultMaxAgeHours == 24

VARIABLES
    now,             \* datetime.now(), in seconds
    max_age_hours,   \* DataCache.max_age_hours
    memory_cache,    \* DataCache.memory_cache : key -> {data, timestamp}
    cache_metadata,  \* DataCache.cache_metadata : key -> {timestamp, size, type}
    files,           \* the cache directory : file name -> file content
    last,            \* the cache call made by the latest step: arguments,
                     \* return value and log lines (NoCall if it made none)
    fetch,           \* fetch_with_retry: loop position, GETs issued, sleeps, result
    app,             \* the Flask app object: covid_data, last_update
    thread,          \* per thread: the handler it runs, its position and locals
    resp,            \* the HTTP response sent by the latest step (NoResp if none)
    produced,        \* number of datasets the pipeline has produced so far
    pipe,            \* one run of fetch_major_cities_data and process_cities_data:
                     \* position, upstream payloads, GETs issued, records so far
    lock,            \* DataCache.lock (threading.RLock): owning thread and depth
    deleted,         \* the keys a delete() removed with success and no set() wrote since
    global_cache,    \* the module global _global_cache of cache.py
    proc             \* one call of a DataProcessor method: its input and its result

cacheVars == <<now, max_age_hours, memory_cache, cache_metadata, files, last>>
appVars == <<app, thread, resp, produced>>
vars == <<now, max_age_hours, memory_cache, cache_metadata, files, last,
          fetch, app, thread, resp, produced, pipe, lock,
          deleted, global_cache, proc>>

\* ----------------------------------------------------------------- values
\* Python values used as payloads.  type is type(data).__name__; id 0 is the
\* empty (falsy) value of the type, id n >= 1 stands for the concrete values
\* {'a': n}, [n], (n,).
None == [type |-> "NoneType", id |-> 0]
Dict(n) == [type |-> "dict", id |-> n]
List(n) == [type |-> "list", id |-> n]
Tuple(n) == [type |-> "tuple", id |-> n]

\* the payloads handed to set() in SpecCache
Payloads == {None, Tuple(1)}

\* bool(data)
Truthy(data) == data.id # 0

\* len(str(data)) for the concrete values above: "{}" "[]" "()" "None",
\* "{'a': 1}", "[1]", "(1,)"
len_str(data) ==
    CASE data.type = "NoneType" -> 4
      [] data.id = 0 -> 2
      [] data.type = "dict" -> 8
      [] data.type = "list" -> 3
      [] data.type = "tuple" -> 4

\* a serialisation that gives every value back as it was
json_roundtrip_exact(data) == data

\* json.load(json.dump(data, default=str)): a tuple is written as a JSON
\* array and read back as a list; dict, list and null come back equal
json_roundtrip(data) ==
    IF data.type = "tuple" THEN [type |-> "list", id |-> data.id] ELSE data

\* datetime.isoformat() of a naive datetime, and datetime.fromisoformat of it
isoformat(t) == [iso |-> t]
fromisoformat(timestamp_str) == timestamp_str.iso
\* a 'timestamp' value datetime.fromisoformat raises on
NotIso == [iso |-> -2]

\* CACHE_KEYS['PROCESSED_DATA'], a key as the sequence of its characters'
\* tokens
PROCESSED_DATA == <<"processed_data">>
Keys == {PROCESSED_DATA, <<"a", "/", "b">>}

\* key.replace('/', '_').replace('\\', '_')
safe_key(key) ==
    [i \in DOMAIN key |-> IF key[i] \in {"/", "\\"} THEN "_" ELSE key[i]]

get_cache_file_path(key) == safe_key(key) \o <<".json">>
get_metadata_file_path(key) == safe_key(key) \o <<"_meta", ".json">>

\* a file whose write failed part-way (truncated, not valid JSON)
Corrupt == [kind |-> "corrupt"]
\* the files whose read raises inside the try of get and of cleanup_expired:
\* invalid JSON (json.load), a file open() refuses, and a JSON object without
\* the key 'timestamp' (KeyError)
ReadErrors == {"corrupt", "unreadable", "no_timestamp"}
DataFile(data, timestamp) ==
    [kind |-> "data", data |-> json_roundtrip(data), timestamp |-> timestamp]
MetaFile(meta) == [kind |-> "meta", meta |-> meta]

\* function helpers for dicts and the directory
Put(f, k, v) == [x \in (DOMAIN f) \cup {k} |-> IF x = k THEN v ELSE f[x]]
Drop(f, ks) == [x \in (DOMAIN f) \ ks |-> f[x]]
Empty == [x \in {} |-> None]

\* ---------------------------------------------------------------- DataCache
is_cache_valid_le(timestamp_str) ==
    /\ timestamp_str # NotIso
    /\ (now - fromisoformat(timestamp_str)) <= max_age_hours * SecondsPerHour

\* _is_cache_valid whose except branch answers True
is_cache_valid_lenient(timestamp_str) ==
    \/ timestamp_str = NotIso
    \/ (now - fromisoformat(timestamp_str)) < max_age_hours * SecondsPerHour

\* DataCache._is_cache_valid: False when the timestamp does not parse
is_cache_valid(timestamp_str) ==
    /\ timestamp_str # NotIso
    /\ (now - fromisoformat(timestamp_str)) < max_age_hours * SecondsPerHour

\* outcomes of the two file writes of set()
SetIO == {"ok", "data_open", "data_write", "meta_open", "meta_write"}

Call(op, key, val, fb, io, ret, served, log) ==
    [op |-> op, key |-> key, val |-> val, fb |-> fb, io |-> io,
     ret |-> ret, served |-> served, log |-> log]

NoTs == [iso |-> -1]


\* the RLock that no thread holds
Unlocked == [owner |-> 0, count |-> 0]

\* a step that makes no call on the cache
NoCall == Call("none", PROCESSED_DATA, None, TRUE, "ok", None, NoTs, {})

\* the metadata record set() derives from the payload
metadata_of(data, timestamp) ==
    [timestamp |-> timestamp,
     size |-> IF Truthy(data) THEN len_str(data) ELSE 0,
     type |-> data.type]

\* the directory after set()'s two writes; io is where (if anywhere) the
\* persisting raises
files_after_set(key, data, timestamp, io) ==
    LET cache_file == get_cache_file_path(key)
        meta_file == get_metadata_file_path(key)
        files1 == CASE io = "data_open" -> files
                    [] io = "data_write" -> Put(files, cache_file, Corrupt)
                    [] OTHER -> Put(files, cache_file, DataFile(data, timestamp))
    IN  CASE io = "meta_write" -> Put(files1, meta_file, Corrupt)
          [] io = "ok" -> Put(files1, meta_file, MetaFile(metadata_of(data, timestamp)))
          [] OTHER -> files1

\* set() that persists the entry but leaves the memory tier untouched
set_file_only(key, data, io) ==
    LET timestamp == isoformat(now)
    IN  /\ memory_cache' = memory_cache
        /\ cache_metadata' = Put(cache_metadata, key, metadata_of(data, timestamp))
        /\ files' = files_after_set(key, data, timestamp, io)
        /\ last' = Call("set", key, data, TRUE, io, io = "ok", NoTs,
                        IF io = "ok" THEN {"cached"} ELSE {"error_caching"})
        /\ UNCHANGED <<now, max_age_hours>>

\* set() that undoes its memory write when persisting fails
set_rollback(key, data, io) ==
    LET timestamp == isoformat(now)
    IN  /\ memory_cache' = IF io = "ok"
                             THEN Put(memory_cache, key, [data |-> data, timestamp |-> timestamp])
                             ELSE memory_cache
        /\ cache_metadata' = IF io = "ok"
                               THEN Put(cache_metadata, key, metadata_of(data, timestamp))
                               ELSE cache_metadata
        /\ files' = files_after_set(key, data, timestamp, io)
        /\ last' = Call("set", key, data, TRUE, io, io = "ok", NoTs,
                        IF io = "ok" THEN {"cached"} ELSE {"error_caching"})
        /\ UNCHANGED <<now, max_age_hours>>

\* DataCache.set: memory tier and metadata first, then the data file, then the
\* metadata file; returns True only if both files were written
set(key, data, io) ==
    LET timestamp == isoformat(now)
    IN  /\ memory_cache' = Put(memory_cache, key, [data |-> data, timestamp |-> timestamp])
        /\ cache_metadata' = Put(cache_metadata, key, metadata_of(data, timestamp))
        /\ files' = files_after_set(key, data, timestamp, io)
        /\ last' = Call("set", key, data, TRUE, io, io = "ok", NoTs,
                        IF io = "ok" THEN {"cached"} ELSE {"error_caching"})
        /\ UNCHANGED <<now, max_age_hours>>

\* the KeyError that leaves get
KeyError == [type |-> "KeyError", id |-> 0]

\* json.load of a file written by set: the entry of a data file, the metadata
\* dict of a metadata file
json_load(file) ==
    IF file.kind = "meta" THEN file.meta
    ELSE [data |-> file.data, timestamp |-> file.timestamp]

GetResult(mem, fs, ret, served, log) ==
    [mem |-> mem, fs |-> fs, ret |-> ret, served |-> served, log |-> log]

\* get() whose expiry branch removes the data file but not the metadata file
get_result_keep_meta(key, use_file_fallback) ==
    LET memHas == key \in DOMAIN memory_cache
        cache_file == get_cache_file_path(key)
        mem1 == Drop(memory_cache, {key})
        log1 == IF memHas THEN {"expired_memory_removed"} ELSE {}
    IN  IF memHas /\ is_cache_valid(memory_cache[key].timestamp)
        THEN IF "data" \in DOMAIN memory_cache[key]
             THEN GetResult(memory_cache, files, memory_cache[key].data,
                            memory_cache[key].timestamp, {"hit_memory"})
             ELSE GetResult(memory_cache, files, KeyError, NoTs, {"raised"})
        ELSE IF use_file_fallback /\ cache_file \in DOMAIN files
        THEN LET cache_entry == json_load(files[cache_file])
             IN  IF files[cache_file].kind \in ReadErrors
                 THEN GetResult(mem1, files, None, NoTs,
                                log1 \cup {"error_reading", "miss"})
                 ELSE IF is_cache_valid(cache_entry.timestamp)
                 THEN IF "data" \in DOMAIN cache_entry
                      THEN GetResult(Put(mem1, key, cache_entry), files,
                                     cache_entry.data, cache_entry.timestamp,
                                     log1 \cup {"hit_file"})
                      ELSE GetResult(Put(mem1, key, cache_entry), files, None, NoTs,
                                     log1 \cup {"error_reading", "miss"})
                 ELSE GetResult(mem1, Drop(files, {cache_file}), None, NoTs,
                                log1 \cup {"expired_file_removed", "miss"})
        ELSE GetResult(mem1, files, None, NoTs, log1 \cup {"miss"})

\* DataCache.get as a function of the state: memory tier first; a stale memory
\* entry is evicted; then, if allowed, the data file; a fresh one repopulates
\* memory, a stale one is removed with its metadata file; an error while
\* reading is a miss.  An object without 'data' (the metadata file of another
\* key) populates memory before cache_entry['data'] raises inside the try,
\* and the same lookup on the memory entry raises outside it.  ret is the
\* return value, served the timestamp of the entry whose data is returned,
\* log the logger lines, mem and fs the tiers after the call
get_result(key, use_file_fallback) ==
    LET memHas == key \in DOMAIN memory_cache
        cache_file == get_cache_file_path(key)
        meta_file == get_metadata_file_path(key)
        mem1 == Drop(memory_cache, {key})
        log1 == IF memHas THEN {"expired_memory_removed"} ELSE {}
    IN  IF memHas /\ is_cache_valid(memory_cache[key].timestamp)
        THEN IF "data" \in DOMAIN memory_cache[key]
             THEN GetResult(memory_cache, files, memory_cache[key].data,
                            memory_cache[key].timestamp, {"hit_memory"})
             ELSE GetResult(memory_cache, files, KeyError, NoTs, {"raised"})
        ELSE IF use_file_fallback /\ cache_file \in DOMAIN files
        THEN LET cache_entry == json_load(files[cache_file])
             IN  IF files[cache_file].kind \in ReadErrors
                 THEN GetResult(mem1, files, None, NoTs,
                                log1 \cup {"error_reading", "miss"})
                 ELSE IF is_cache_valid(cache_entry.timestamp)
                 THEN IF "data" \in DOMAIN cache_entry
                      THEN GetResult(Put(mem1, key, cache_entry), files,
                                     cache_entry.data, cache_entry.timestamp,
                                     log1 \cup {"hit_file"})
                      ELSE GetResult(Put(mem1, key, cache_entry), files, None, NoTs,
                                     log1 \cup {"error_reading", "miss"})
                 ELSE GetResult(mem1, Drop(files, {cache_file, meta_file}), None, NoTs,
                                log1 \cup {"expired_file_removed", "miss"})
        ELSE GetResult(mem1, files, None, NoTs, log1 \cup {"miss"})

\* get() that returns a fresh data file without keeping it in memory
get_no_repopulate(key, use_file_fallback) ==
    LET r == get_result(key, use_file_fallback)
    IN  /\ memory_cache' = IF "hit_file" \in r.log THEN Drop(r.mem, {key}) ELSE r.mem
        /\ files' = r.fs
        /\ last' = Call("get", key, None, use_file_fallback, "ok", r.ret, r.served, r.log)
        /\ UNCHANGED <<now, max_age_hours, cache_metadata>>

\* DataCache.get, the call
get(key, use_file_fallback) ==
    LET r == get_result(key, use_file_fallback)
    IN  /\ memory_cache' = r.mem
        /\ files' = r.fs
        /\ last' = Call("get", key, None, use_file_fallback, "ok", r.ret, r.served, r.log)
        /\ UNCHANGED <<now, max_age_hours, cache_metadata>>

\* outcomes of the two os.remove of delete()
RemoveIO == {"ok", "data_remove", "meta_remove"}

\* delete() that takes the entry out of the dicts only after the files
delete_files_first(key, io) ==
    LET cache_file == get_cache_file_path(key)
        meta_file == get_metadata_file_path(key)
        removed == CASE io = "ok" -> {cache_file, meta_file}
                     [] io = "data_remove" -> {}
                     [] io = "meta_remove" -> {cache_file}
    IN  /\ io = "data_remove" => cache_file \in DOMAIN files
        /\ io = "meta_remove" => meta_file \in DOMAIN files
        /\ memory_cache' = IF io = "ok" THEN Drop(memory_cache, {key}) ELSE memory_cache
        /\ cache_metadata' = IF io = "ok" THEN Drop(cache_metadata, {key}) ELSE cache_metadata
        /\ files' = Drop(files, removed)
        /\ last' = Call("delete", key, None, TRUE, io, io = "ok", NoTs,
                        IF io = "ok" THEN {"deleted"} ELSE {"error_deleting", "deleted"})
        /\ UNCHANGED <<now, max_age_hours>>

\* DataCache.delete: both dicts first, then the data file, then the metadata
\* file; io is the os.remove that raises, which needs its file to exist
delete(key, io) ==
    LET cache_file == get_cache_file_path(key)
        meta_file == get_metadata_file_path(key)
        removed == CASE io = "ok" -> {cache_file, meta_file}
                     [] io = "data_remove" -> {}
                     [] io = "meta_remove" -> {cache_file}
    IN  /\ io = "data_remove" => cache_file \in DOMAIN files
        /\ io = "meta_remove" => meta_file \in DOMAIN files
        /\ memory_cache' = Drop(memory_cache, {key})
        /\ cache_metadata' = Drop(cache_metadata, {key})
        /\ files' = Drop(files, removed)
        /\ last' = Call("delete", key, None, TRUE, io, io = "ok", NoTs,
                        IF io = "ok" THEN {"deleted"} ELSE {"error_deleting", "deleted"})
        /\ UNCHANGED <<now, max_age_hours>>

\* filename.endswith('.json')
ends_json(filename) == filename[Len(filename)] = ".json"
\* filename.endswith('_meta.json')
ends_meta_json(filename) ==
    /\ Len(filename) >= 2
    /\ filename[Len(filename)] = ".json"
    /\ filename[Len(filename) - 1] = "_meta"

\* the files of the directory clear_all removes
json_files == {f \in DOMAIN files : ends_json(f)}

\* DataCache.clear_all: both dicts first, then the files in the order of
\* os.listdir; removed are the files gone when the loop ended: all of them
\* on success, those before the os.remove that raised otherwise (none when
\* os.listdir raised)
clear_all(removed, success) ==
    /\ removed \subseteq json_files
    /\ success => removed = json_files
    /\ (~success /\ removed = json_files) => json_files = {}
    /\ memory_cache' = Empty
    /\ cache_metadata' = Empty
    /\ files' = Drop(files, removed)
    /\ last' = Call("clear_all", PROCESSED_DATA, None, TRUE,
                    IF success THEN "ok" ELSE "remove", success, NoTs,
                    IF success THEN {"cleared"} ELSE {"error_clearing", "cleared"})
    /\ UNCHANGED <<now, max_age_hours>>

\* DataCache.get_cache_info: the keys of the memory tier, the data files of
\* the directory with '.json' cut off, and a copy of the metadata dict
get_cache_info ==
    LET file_keys == {SubSeq(f, 1, Len(f) - 1) :
                        f \in {g \in json_files : ~ends_meta_json(g)}}
    IN  /\ last' = Call("get_cache_info", PROCESSED_DATA, None, TRUE, "ok",
                        [memory_keys |-> DOMAIN memory_cache,
                         memory_count |-> Cardinality(DOMAIN memory_cache),
                         file_keys |-> file_keys,
                         file_count |-> Cardinality(file_keys),
                         metadata |-> cache_metadata], NoTs, {})
        /\ UNCHANGED <<now, max_age_hours, memory_cache, cache_metadata, files>>

\* file_path.replace('.json', '_meta.json')
meta_of_file(file_path) ==
    SubSeq(file_path, 1, Len(file_path) - 1) \o <<"_meta", ".json">>

\* DataCache.cleanup_expired: expired memory entries (with their metadata),
\* then every readable expired data file with its metadata file; the return
\* value counts both
cleanup_expired ==
    LET expired_memory_keys ==
            {k \in DOMAIN memory_cache : ~is_cache_valid(memory_cache[k].timestamp)}
        data_files == {f \in DOMAIN files : ends_json(f) /\ ~ends_meta_json(f)}
        expired_files ==
            {f \in data_files : /\ files[f].kind = "data"
                                /\ ~is_cache_valid(files[f].timestamp)}
        unreadable == {f \in data_files : files[f].kind \in ReadErrors}
        removed_count == Cardinality(expired_memory_keys) + Cardinality(expired_files)
    IN  /\ memory_cache' = Drop(memory_cache, expired_memory_keys)
        /\ cache_metadata' = Drop(cache_metadata, expired_memory_keys)
        /\ files' = Drop(files, expired_files \cup {meta_of_file(f) : f \in expired_files})
        /\ last' = Call("cleanup_expired", PROCESSED_DATA, None, TRUE, "ok", removed_count, NoTs,
                        (IF unreadable # {} THEN {"error_checking"} ELSE {})
                        \cup (IF removed_count > 0 THEN {"cleaned"} ELSE {}))
        /\ UNCHANGED <<now, max_age_hours>>

\* the wall clock advances by seconds between calls, at most max_ticks times
Tick(seconds, max_ticks) ==
    /\ now < max_ticks * seconds
    /\ now' = now + seconds
    /\ last' = NoCall
    /\ UNCHANGED <<max_age_hours, memory_cache, cache_metadata, files>>

\* the data file of key is found changed from outside the program between
\* two calls: into a file open() refuses, into a JSON object without
\* 'timestamp', or into the same entry under a timestamp that does not parse
Damage(key, how) ==
    LET cache_file == get_cache_file_path(key)
    IN  /\ cache_file \in DOMAIN files
        /\ files[cache_file].kind = "data"
        /\ files[cache_file].timestamp # NotIso
        /\ files' = Put(files, cache_file,
                        IF how = "bad_timestamp"
                        THEN [files[cache_file] EXCEPT !.timestamp = NotIso]
                        ELSE [kind |-> how])
        /\ last' = NoCall
        /\ UNCHANGED <<now, max_age_hours, memory_cache, cache_metadata>>

\* the process restarts: DataCache.__init__ on the same cache directory
Restart ==
    /\ memory_cache /= Empty
    /\ memory_cache' = Empty
    /\ cache_metadata' = Empty
    /\ last' = NoCall
    /\ UNCHANGED <<now, max_age_hours, files>>

\* ---------------------------------------------------------------- SpecCache
\* values of the variables a specification does not use
IdleFetch == [pc |-> "unused"]
IdleApp == [covid_data |-> None, last_update |-> NoTs]
IdleThreads == <<>>
IdlePipe == [pc |-> "unused"]
IdleProc == [pc |-> "unused"]
NoResp == [route |-> "none", status |-> 0, data |-> None, last_update |-> NoTs]

\* DataCache.__init__ on an empty cache directory
InitCache ==
    /\ now = 0
    /\ max_age_hours \in 0..MaxAgeHours
    /\ memory_cache = Empty
    /\ cache_metadata = Empty
    /\ files = Empty
    /\ last = NoCall
    /\ fetch = IdleFetch
    /\ app = IdleApp
    /\ thread = IdleThreads
    /\ resp = NoResp
    /\ produced = 0
    /\ pipe = IdlePipe
    /\ lock = Unlocked
    /\ deleted = {}
    /\ global_cache = None
    /\ proc = IdleProc

\* the calls of set() that are tried: every payload and every failure on the
\* well-known key, one successful write on the other keys
SetInputs ==
    {inp \in Keys \X Payloads \X SetIO :
        inp[1] = PROCESSED_DATA \/ (inp[2] = Tuple(1) /\ inp[3] = "ok")}

\* the variables a call on the cache leaves alone
otherVars == <<fetch, app, thread, resp, produced, pipe, lock,
          deleted, global_cache, proc>>
\* the same without the record of the deleted keys
tiersOther == <<fetch, app, thread, resp, produced, pipe, lock, global_cache, proc>>

NextCache ==
    \/ \E inp \in SetInputs : set(inp[1], inp[2], inp[3]) /\ UNCHANGED otherVars
    \/ \E key \in Keys, use_file_fallback \in BOOLEAN :
          get(key, use_file_fallback) /\ UNCHANGED otherVars
    \/ \E key \in Keys : delete(key, "ok") /\ UNCHANGED otherVars
    \/ clear_all(json_files, TRUE) /\ UNCHANGED otherVars
    \/ cleanup_expired /\ UNCHANGED otherVars
    \/ Tick(TickSeconds, MaxTicks) /\ UNCHANGED otherVars
    \/ Restart /\ UNCHANGED otherVars

SpecCache == InitCache /\ [][NextCache]_vars

\* ---------------------------------------------------------------- SpecStore
\* the same instance with writes that succeed, removals that can fail, the
\* introspection call and data files damaged from outside
\* the keys tried: the well-known key and a key ending in '_meta'
StoreKeys == {PROCESSED_DATA, <<"processed_data", "_meta">>}

\* the calls of set() that are tried: a list and a tuple on the well-known
\* key, a tuple on the other
StoreInputs ==
    {inp \in StoreKeys \X {List(1), Tuple(1)} :
        inp[1] = PROCESSED_DATA \/ inp[2] = Tuple(1)}

NextStore ==
    \/ \E inp \in StoreInputs : set(inp[1], inp[2], "ok") /\ UNCHANGED otherVars
    \/ \E key \in StoreKeys, use_file_fallback \in BOOLEAN :
          get(key, use_file_fallback) /\ UNCHANGED otherVars
    \/ \E key \in StoreKeys, io \in RemoveIO : delete(key, io) /\ UNCHANGED otherVars
    \/ \E removed \in SUBSET json_files, success \in BOOLEAN :
          clear_all(removed, success) /\ UNCHANGED otherVars
    \/ cleanup_expired /\ UNCHANGED otherVars
    \/ get_cache_info /\ UNCHANGED otherVars
    \/ \E how \in (ReadErrors \ {"corrupt"}) \cup {"bad_timestamp"} :
          Damage(PROCESSED_DATA, how) /\ UNCHANGED otherVars
    \/ Tick(TickSeconds, MaxTicks) /\ UNCHANGED otherVars
    \/ Restart /\ UNCHANGED otherVars

SpecStore == InitCache /\ [][NextStore]_vars

\* the entry of the data file of key, if the file is there and reads as one
file_entry(key) ==
    {files[f] : f \in {g \in {get_cache_file_path(key)} \cap DOMAIN files :
                          files[g].kind = "data"}}

\* no memory entry of key passes the age test
no_fresh_memory(key) ==
    key \in DOMAIN memory_cache =>
        (now - memory_cache[key].timestamp.iso) >= max_age_hours * SecondsPerHour

\* C21: a get(k) finding a stale memory entry evicts it and goes on to the
\* file tier; with the fallback allowed a fresh data file is returned and
\* becomes the memory entry, payload and timestamp, and a stale one is
\* removed with its metadata file and the call is a miss; with the fallback
\* disallowed the directory is as before and nothing comes from it
C21_TieredGet ==
    [][\A key \in StoreKeys :
        (last'.op = "get" /\ last'.key = key /\ no_fresh_memory(key)) =>
            /\ (key \in DOMAIN memory_cache /\ key \in DOMAIN memory_cache')
                    => (last'.fb /\ memory_cache'[key] # memory_cache[key])
            /\ \A e \in file_entry(key) :
                  (/\ last'.fb
                   /\ e.timestamp # NotIso
                   /\ (now - e.timestamp.iso) < max_age_hours * SecondsPerHour) =>
                        /\ last'.ret = e.data
                        /\ key \in DOMAIN memory_cache'
                        /\ memory_cache'[key] = [data |-> e.data, timestamp |-> e.timestamp]
                        /\ files' = files
            /\ \A e \in file_entry(key) :
                  (/\ last'.fb
                   /\ e.timestamp # NotIso
                   /\ (now - e.timestamp.iso) >= max_age_hours * SecondsPerHour) =>
                        /\ last'.ret = None
                        /\ "miss" \in last'.log
                        /\ key \notin DOMAIN memory_cache'
                        /\ get_cache_file_path(key) \notin DOMAIN files'
                        /\ get_metadata_file_path(key) \notin DOMAIN files'
            /\ ~last'.fb =>
                    /\ files' = files
                    /\ last'.ret = None
                    /\ key \notin DOMAIN memory_cache']_vars

\* a get on a restarted instance answered from the data file written an hour
\* or more before, which is now the memory entry
C21_Witness ==
    /\ last.op = "get"
    /\ last.fb
    /\ "hit_file" \in last.log
    /\ last.key \in DOMAIN memory_cache
    /\ memory_cache[last.key].timestamp = last.served
    /\ now > last.served.iso
    /\ file_entry(last.key) = {[kind |-> "data", data |-> last.ret, timestamp |-> last.served]}

\* C22: a get(k) that finds no fresh memory entry and a data file that open()
\* refuses, that is not JSON, that has no 'timestamp' or whose timestamp does
\* not parse returns None as a miss and leaves no memory entry of k
C22_ReadErrors ==
    [][\A key \in StoreKeys :
        LET cache_file == get_cache_file_path(key)
        IN  (/\ last'.op = "get" /\ last'.key = key /\ last'.fb
             /\ no_fresh_memory(key)
             /\ cache_file \in DOMAIN files
             /\ \/ files[cache_file].kind \in {"unreadable", "corrupt", "no_timestamp"}
                \/ files[cache_file].kind = "data" /\ files[cache_file].timestamp = NotIso) =>
                /\ last'.ret = None
                /\ "miss" \in last'.log
                /\ key \notin DOMAIN memory_cache']_vars

\* a get that met a data file whose timestamp does not parse, at a time when
\* no entry can have reached the maximum age
C22_Witness ==
    /\ last.op = "get"
    /\ last.fb
    /\ last.ret = None
    /\ "expired_file_removed" \in last.log
    /\ max_age_hours > 0
    /\ now = 0
    /\ last.key \notin DOMAIN memory_cache

\* C23: after delete(k) neither dict has k, after clear_all both dicts are
\* empty, whether or not the files could be removed; the call returns False
\* exactly when a removal failed
C23_MemoryCleared ==
    [][/\ last'.op = "delete" =>
            /\ last'.key \notin DOMAIN memory_cache'
            /\ last'.key \notin DOMAIN cache_metadata'
            /\ last'.ret = (last'.io = "ok")
            /\ last'.ret =>
                    /\ get_cache_file_path(last'.key) \notin DOMAIN files'
                    /\ get_metadata_file_path(last'.key) \notin DOMAIN files'
       /\ last'.op = "clear_all" =>
            /\ memory_cache' = Empty
            /\ cache_metadata' = Empty
            /\ last'.ret = (last'.io = "ok")
            /\ last'.ret => \A f \in DOMAIN files' : ~ends_json(f)]_vars

\* a delete that could not remove the data file of an entry it took out of
\* memory
C23_Witness ==
    /\ last.op = "delete"
    /\ last.ret = FALSE
    /\ "error_deleting" \in last.log
    /\ file_entry(last.key) # {}
    /\ last.key \notin DOMAIN memory_cache
    /\ memory_cache # Empty

\* the age test of the claims on a stored timestamp
aged(timestamp) == (now - timestamp.iso) >= max_age_hours * SecondsPerHour

\* C24: after cleanup_expired no memory entry and no readable data file that
\* had reached the maximum age is left, the metadata file of such a data file
\* is gone too, and the entries under that age are as before in both tiers
C24_ExactCleanup ==
    [][last'.op = "cleanup_expired" =>
        \A key \in StoreKeys :
            LET cache_file == get_cache_file_path(key)
                meta_file == get_metadata_file_path(key)
            IN  /\ key \in DOMAIN memory_cache =>
                      IF aged(memory_cache[key].timestamp)
                      THEN key \notin DOMAIN memory_cache'
                      ELSE /\ key \in DOMAIN memory_cache'
                           /\ memory_cache'[key] = memory_cache[key]
                /\ \A e \in file_entry(key) :
                      e.timestamp # NotIso =>
                          IF aged(e.timestamp)
                          THEN /\ cache_file \notin DOMAIN files'
                               /\ meta_file \notin DOMAIN files'
                          ELSE /\ cache_file \in DOMAIN files'
                               /\ files'[cache_file] = e
                               /\ meta_file \in DOMAIN files =>
                                      /\ meta_file \in DOMAIN files'
                                      /\ files'[meta_file] = files[meta_file]]_vars

\* what a successful set(k, v) left in the directory: v, with the type its
\* metadata file records, and the timestamp both files carry
written(key) ==
    {[v |-> [type |-> m.meta.type, id |-> e.data.id], timestamp |-> e.timestamp] :
        e \in file_entry(key),
        m \in {files[f] : f \in {g \in {get_metadata_file_path(key)} \cap DOMAIN files :
                                    /\ files[g].kind = "meta"
                                    /\ \E d \in file_entry(key) :
                                          d.timestamp = files[g].meta.timestamp}}}

\* C26 as stated: get(k) on a new instance (empty memory tier) over the
\* directory a successful set(k, v) wrote returns a value equal to v while
\* the entry is younger than the maximum age, and None afterwards
C26_SurvivesRestart ==
    [][\A key \in StoreKeys :
        (/\ last'.op = "get" /\ last'.key = key /\ last'.fb
         /\ memory_cache = Empty) =>
            \A w \in written(key) :
                last'.ret = IF aged(w.timestamp) THEN None ELSE w.v]_vars

\* C26, amended: the value returned is v as JSON gives it back: a tuple comes
\* back as the list of its items, a list comes back equal
C26_SurvivesRestartAsJson ==
    [][\A key \in StoreKeys :
        (/\ last'.op = "get" /\ last'.key = key /\ last'.fb
         /\ memory_cache = Empty) =>
            \A w \in written(key) :
                last'.ret = IF aged(w.timestamp) THEN None
                            ELSE IF w.v.type = "tuple" THEN List(w.v.id) ELSE w.v]_vars

\* a restarted instance returns the list [1] for the tuple (1,) written an
\* hour or more before
C26_Witness ==
    /\ last.op = "get"
    /\ "hit_file" \in last.log
    /\ cache_metadata = Empty
    /\ last.ret = List(1)
    /\ now > last.served.iso
    /\ \E w \in written(last.key) : w.v = Tuple(1) /\ w.timestamp = last.served

\* all that is stored under key has reached the maximum age
expired(key) ==
    LET stored == {memory_cache[k].timestamp : k \in {key} \cap DOMAIN memory_cache}
                  \cup {e.timestamp : e \in file_entry(key)}
    IN  /\ stored # {}
        /\ \A ts \in stored : ts # NotIso /\ aged(ts)

\* C27: get_cache_info reports a key whose entry has reached the maximum age
\* as it reports a key never written: not among the memory keys, the file
\* keys or the metadata
C27_ExpiredIsAbsent ==
    last.op = "get_cache_info" =>
        \A key \in StoreKeys :
            expired(key) =>
                /\ key \notin last.ret.memory_keys
                /\ safe_key(key) \notin last.ret.file_keys
                /\ key \notin DOMAIN last.ret.metadata

\* C34: the value cleanup_expired returns is the number of keys whose expired
\* entry it removed, a key held by both tiers counted once
C34_CountOnce ==
    [][last'.op = "cleanup_expired" =>
        last'.ret = Cardinality(
            {key \in StoreKeys :
                \/ key \in DOMAIN memory_cache /\ key \notin DOMAIN memory_cache'
                \/ /\ get_cache_file_path(key) \in DOMAIN files
                   /\ get_cache_file_path(key) \notin DOMAIN files'})]_vars

\* what get(key) returns on a new instance over the directory: the payload
\* of a readable data file under the maximum age, None otherwise
from_new_instance(key) ==
    LET present == {get_cache_file_path(key)} \cap DOMAIN files
    IN  IF \E f \in present : /\ files[f].kind = "data"
                              /\ is_cache_valid(files[f].timestamp)
        THEN files[get_cache_file_path(key)].data
        ELSE None

\* keys with a path separator, a key that differs from one of them in the
\* separator only, and a key ending in '_meta'
IsolationKeys == Keys \cup StoreKeys \cup {<<"a", "_", "b">>, <<"a", "\\", "b">>}

\* C35: a set or a delete of one key leaves what a new instance returns for
\* every other key as it was, cleanup_expired leaves what it returns for a
\* key under the maximum age as it was, and no two keys share a data file
\* or have one key's data file as the other's metadata file
C35_KeyIsolation ==
    [][/\ \A k1 \in StoreKeys :
             \/ (last'.op \in {"set", "delete"} /\ last'.key # k1)
             \/ (last'.op = "cleanup_expired" /\ from_new_instance(k1) # None)
             => from_new_instance(k1)' = from_new_instance(k1)
       /\ \A k1 \in IsolationKeys, k2 \in IsolationKeys :
             k1 # k2 =>
                /\ get_cache_file_path(k1) # get_cache_file_path(k2)
                /\ get_cache_file_path(k1) # get_metadata_file_path(k2)]_vars

\* ---------------------------------------------------------------- SpecTiers
\* one instance on which every file operation succeeds, with the record of
\* the keys deleted and not written since
\* the keys in deleted after the call that last' records
deleted_after ==
    CASE last'.op = "delete" /\ last'.ret -> deleted \cup {last'.key}
      [] last'.op = "set" -> deleted \ {last'.key}
      [] OTHER -> deleted

InitTiers == InitCache

NextTiers ==
    \/ \E inp \in StoreInputs :
          set(inp[1], inp[2], "ok") /\ deleted' = deleted_after /\ UNCHANGED tiersOther
    \/ \E key \in StoreKeys, use_file_fallback \in BOOLEAN :
          get(key, use_file_fallback) /\ deleted' = deleted_after /\ UNCHANGED tiersOther
    \/ \E key \in StoreKeys :
          delete(key, "ok") /\ deleted' = deleted_after /\ UNCHANGED tiersOther
    \/ clear_all(json_files, TRUE) /\ deleted' = deleted_after /\ UNCHANGED tiersOther
    \/ cleanup_expired /\ deleted' = deleted_after /\ UNCHANGED tiersOther
    \/ Tick(TickSeconds, MaxTicks) /\ deleted' = deleted_after /\ UNCHANGED tiersOther

SpecTiers == InitTiers /\ [][NextTiers]_vars

\* C37: when memory_cache and the directory both hold an entry for a key,
\* the two have the same payload and the same timestamp, and cache_metadata
\* has an entry for exactly the keys of memory_cache
C37_TierAgreement ==
    /\ \A key \in DOMAIN memory_cache :
          \A e \in file_entry(key) :
              /\ memory_cache[key].data = e.data
              /\ memory_cache[key].timestamp = e.timestamp
    /\ DOMAIN cache_metadata = DOMAIN memory_cache

\* C38: a get(k) with the file fallback, made after a delete(k) that
\* returned True and before the next set(k, .), returns None
C38_DeleteEffective ==
    [][(last'.op = "get" /\ last'.fb /\ last'.key \in deleted) =>
          last'.ret = None]_vars

\* ------------------------------------------------------------ SpecSingleton
\* threads of one process calling get_cache(); the function takes no lock,
\* so the interpreter may switch threads between its statements
\* number of threads that call get_cache()
MaxGetters == 3
SingletonThreads == 1..MaxGetters

\* the DataCache object (with its own RLock) that thread t constructs
DataCache(t) == [type |-> "DataCache", id |-> t]

\* a thread outside get_cache: the instance it built and the one it was given
IdleGetter == [pc |-> "idle", cache |-> None, got |-> None]

\* a thread calls get_cache()
gc_call(t) ==
    /\ thread[t].pc = "idle"
    /\ thread' = [thread EXCEPT ![t].pc = "test"]
    /\ UNCHANGED global_cache

\* if _global_cache is None:
gc_test(t) ==
    /\ thread[t].pc = "test"
    /\ thread' = [thread EXCEPT ![t].pc =
                     IF global_cache = None THEN "construct" ELSE "return"]
    /\ UNCHANGED global_cache

\* DataCache(cache_dir, max_age_hours), the right-hand side of the assignment
gc_construct(t) ==
    /\ thread[t].pc = "construct"
    /\ thread' = [thread EXCEPT ![t].pc = "store", ![t].cache = DataCache(t)]
    /\ UNCHANGED global_cache

\* _global_cache = <the new instance>
gc_store(t) ==
    /\ thread[t].pc = "store"
    /\ global_cache' = thread[t].cache
    /\ thread' = [thread EXCEPT ![t].pc = "return"]

\* return _global_cache
gc_return(t) ==
    /\ thread[t].pc = "return"
    /\ thread' = [thread EXCEPT ![t].pc = "idle", ![t].got = global_cache]
    /\ UNCHANGED global_cache

InitSingleton ==
    /\ now = 0
    /\ max_age_hours \in 0..MaxAgeHours
    /\ memory_cache = Empty
    /\ cache_metadata = Empty
    /\ files = Empty
    /\ last = NoCall
    /\ fetch = IdleFetch
    /\ app = IdleApp
    /\ thread = [t \in SingletonThreads |-> IdleGetter]
    /\ resp = NoResp
    /\ produced = 0
    /\ pipe = IdlePipe
    /\ lock = Unlocked
    /\ deleted = {}
    /\ global_cache = None
    /\ proc = IdleProc

\* the variables get_cache leaves alone
singletonUnchanged ==
    UNCHANGED <<cacheVars, fetch, app, resp, produced, pipe, lock, deleted, proc>>

NextSingleton ==
    \/ \E t \in SingletonThreads : gc_call(t) /\ singletonUnchanged
    \/ \E t \in SingletonThreads : gc_test(t) /\ singletonUnchanged
    \/ \E t \in SingletonThreads : gc_construct(t) /\ singletonUnchanged
    \/ \E t \in SingletonThreads : gc_store(t) /\ singletonUnchanged
    \/ \E t \in SingletonThreads : gc_return(t) /\ singletonUnchanged

SpecSingleton == InitSingleton /\ [][NextSingleton]_vars

\* C36: any two threads that get_cache() has returned to were given the same
\* DataCache object, hence the same lock
C36_SingleInstance ==
    \A t1 \in SingletonThreads, t2 \in SingletonThreads :
        (thread[t1].got # None /\ thread[t2].got # None) =>
            thread[t1].got = thread[t2].got

\* ----------------------------------------------------------------- SpecLock
\* threads that call the methods of one DataCache instance.  Every method is
\* `with self.lock:` around statements on the two dicts followed by
\* statements on the cache directory; a thread takes them as separate steps
LockThreads == {1, 2}

\* the calls tried
LockCalls ==
    {[op |-> "set", key |-> PROCESSED_DATA, data |-> List(1), fb |-> TRUE]}
    \cup {[op |-> "get", key |-> PROCESSED_DATA, data |-> None, fb |-> fb] : fb \in BOOLEAN}
    \cup {[op |-> op, key |-> PROCESSED_DATA, data |-> None, fb |-> TRUE] :
            op \in {"delete", "clear_all", "cleanup_expired", "get_cache_info", "get_cache_size"}}

\* a thread that is in no call
IdleCaller == [call |-> [op |-> "none"], pc |-> "idle", part |-> [none |-> TRUE],
               seen |-> <<>>]

\* what a call finds in the instance and in its directory
tiers == <<memory_cache, cache_metadata, files>>

\* RLock.acquire that does not wait for the owner
can_acquire_any(t) == TRUE

\* RLock.acquire returns at once for the owner and when the lock is free
can_acquire(t) == lock.owner \in {0, t}

\* sum of len(str(cache_entry)) over the entries of keys; str of an entry is
\* "{'data': " + str(data) + ", 'timestamp': '" + 26 characters + "'}"
RECURSIVE memory_size(_)
memory_size(keys) ==
    IF keys = {} THEN 0
    ELSE LET k == CHOOSE k \in keys : TRUE
         IN  53 + len_str(memory_cache[k].data) + memory_size(keys \ {k})

\* the statements of a call on memory_cache and cache_metadata, which come
\* first in every method (for get: the memory lookup of lines 81-89); part
\* is what the call keeps in its locals for the statements that follow
dict_part(c) ==
    LET timestamp == isoformat(now)
        expired_memory_keys ==
            {k \in DOMAIN memory_cache : ~is_cache_valid(memory_cache[k].timestamp)}
    IN  CASE c.op = "set" ->
               [mem |-> Put(memory_cache, c.key, [data |-> c.data, timestamp |-> timestamp]),
                meta |-> Put(cache_metadata, c.key, metadata_of(c.data, timestamp)),
                part |-> [timestamp |-> timestamp]]
          [] c.op = "get" ->
               [mem |-> get_result(c.key, FALSE).mem, meta |-> cache_metadata,
                part |-> get_result(c.key, FALSE)]
          [] c.op = "delete" ->
               [mem |-> Drop(memory_cache, {c.key}), meta |-> Drop(cache_metadata, {c.key}),
                part |-> [deleted |-> TRUE]]
          [] c.op = "clear_all" ->
               [mem |-> Empty, meta |-> Empty, part |-> [cleared |-> TRUE]]
          [] c.op = "cleanup_expired" ->
               [mem |-> Drop(memory_cache, expired_memory_keys),
                meta |-> Drop(cache_metadata, expired_memory_keys),
                part |-> [removed_count |-> Cardinality(expired_memory_keys)]]
          [] c.op = "get_cache_info" ->
               [mem |-> memory_cache, meta |-> cache_metadata,
                part |-> [memory_keys |-> DOMAIN memory_cache]]
          [] c.op = "get_cache_size" ->
               [mem |-> memory_cache, meta |-> cache_metadata,
                part |-> [memory_size |-> memory_size(DOMAIN memory_cache)]]

\* get returns from the memory lookup on a hit, and without the fallback
returns_early(c, part) ==
    c.op = "get" /\ ("hit_memory" \in part.log \/ ~c.fb)

\* the statements of a call on the cache directory (for get: the file
\* fallback of lines 91-108, which also fills memory_cache) and its return
\* value; get_cache_size adds up os.path.getsize of the files in measured
file_part(c, part) ==
    LET data_files == {f \in json_files : ~ends_meta_json(f)}
        expired_files ==
            {f \in data_files : /\ files[f].kind = "data"
                                /\ ~is_cache_valid(files[f].timestamp)}
    IN  CASE c.op = "set" ->
               [mem |-> memory_cache, ret |-> TRUE,
                fs |-> files_after_set(c.key, c.data, part.timestamp, "ok")]
          [] c.op = "get" ->
               [mem |-> get_result(c.key, TRUE).mem, ret |-> get_result(c.key, TRUE).ret,
                fs |-> get_result(c.key, TRUE).fs]
          [] c.op = "delete" ->
               [mem |-> memory_cache, ret |-> TRUE,
                fs |-> Drop(files, {get_cache_file_path(c.key), get_metadata_file_path(c.key)})]
          [] c.op = "clear_all" ->
               [mem |-> memory_cache, ret |-> TRUE, fs |-> Drop(files, json_files)]
          [] c.op = "cleanup_expired" ->
               [mem |-> memory_cache,
                ret |-> part.removed_count + Cardinality(expired_files),
                fs |-> Drop(files, expired_files \cup {meta_of_file(f) : f \in expired_files})]
          [] c.op = "get_cache_info" ->
               [mem |-> memory_cache, fs |-> files,
                ret |-> [memory_keys |-> part.memory_keys,
                         file_keys |-> {SubSeq(f, 1, Len(f) - 1) : f \in data_files},
                         metadata |-> cache_metadata]]
          [] c.op = "get_cache_size" ->
               [mem |-> memory_cache, fs |-> files,
                ret |-> [memory_size_bytes |-> part.memory_size, measured |-> json_files]]

\* a thread of the application calls a method of the instance
lk_call(t, c) ==
    /\ thread[t].pc = "idle"
    /\ thread' = [thread EXCEPT ![t] = [IdleCaller EXCEPT !.call = c, !.pc = "acquire"]]
    /\ last' = NoCall
    /\ UNCHANGED <<now, max_age_hours, memory_cache, cache_metadata, files, lock>>

\* `with self.lock:` is entered
lk_acquire(t) ==
    /\ thread[t].pc = "acquire"
    /\ can_acquire(t)
    /\ lock' = [owner |-> t, count |-> lock.count + 1]
    /\ thread' = [thread EXCEPT ![t].pc = "dicts", ![t].seen = tiers]
    /\ last' = NoCall
    /\ UNCHANGED <<now, max_age_hours, memory_cache, cache_metadata, files>>

\* the statements on the dicts
lk_dicts(t) ==
    LET c == thread[t].call
        r == dict_part(c)
    IN  /\ thread[t].pc = "dicts"
        /\ memory_cache' = r.mem
        /\ cache_metadata' = r.meta
        /\ thread' = [thread EXCEPT ![t].part = r.part,
                                    ![t].seen = <<r.mem, r.meta, files>>,
                                    ![t].pc = IF returns_early(c, r.part)
                                              THEN "release" ELSE "files"]
        /\ last' = NoCall
        /\ UNCHANGED <<now, max_age_hours, files, lock>>

\* the statements on the cache directory
lk_files(t) ==
    LET c == thread[t].call
        r == file_part(c, thread[t].part)
    IN  /\ thread[t].pc = "files"
        /\ memory_cache' = r.mem
        /\ files' = r.fs
        /\ thread' = [thread EXCEPT ![t].part = [ret |-> r.ret],
                                    ![t].seen = <<r.mem, cache_metadata, r.fs>>,
                                    ![t].pc = "release"]
        /\ last' = NoCall
        /\ UNCHANGED <<now, max_age_hours, cache_metadata, lock>>

\* the `with` block is left
lk_release(t) ==
    /\ thread[t].pc = "release"
    /\ lock' = IF lock.count <= 1 THEN Unlocked ELSE [lock EXCEPT !.count = @ - 1]
    /\ thread' = [thread EXCEPT ![t].pc = "return"]
    /\ last' = NoCall
    /\ UNCHANGED <<now, max_age_hours, memory_cache, cache_metadata, files>>

\* the method returns to its caller
lk_return(t) ==
    /\ thread[t].pc = "return"
    /\ thread' = [thread EXCEPT ![t] = IdleCaller]
    /\ last' = Call(thread[t].call.op, thread[t].call.key, thread[t].call.data,
                    thread[t].call.fb, "ok", thread[t].part.ret, NoTs, {})
    /\ UNCHANGED <<now, max_age_hours, memory_cache, cache_metadata, files, lock>>

InitLock ==
    /\ now = 0
    /\ max_age_hours \in 0..MaxAgeHours
    /\ memory_cache = Empty
    /\ cache_metadata = Empty
    /\ files = Empty
    /\ last = NoCall
    /\ fetch = IdleFetch
    /\ app = IdleApp
    /\ thread = [t \in LockThreads |-> IdleCaller]
    /\ resp = NoResp
    /\ produced = 0
    /\ pipe = IdlePipe
    /\ lock = Unlocked
    /\ deleted = {}
    /\ global_cache = None
    /\ proc = IdleProc

NextLock ==
    \/ \E t \in LockThreads, c \in LockCalls :
          lk_call(t, c) /\ UNCHANGED <<fetch, app, resp, produced, pipe, deleted, global_cache, proc>>
    \/ \E t \in LockThreads : lk_acquire(t) /\ UNCHANGED <<fetch, app, resp, produced, pipe, deleted, global_cache, proc>>
    \/ \E t \in LockThreads : lk_dicts(t) /\ UNCHANGED <<fetch, app, resp, produced, pipe, deleted, global_cache, proc>>
    \/ \E t \in LockThreads : lk_files(t) /\ UNCHANGED <<fetch, app, resp, produced, pipe, deleted, global_cache, proc>>
    \/ \E t \in LockThreads : lk_release(t) /\ UNCHANGED <<fetch, app, resp, produced, pipe, deleted, global_cache, proc>>
    \/ \E t \in LockThreads : lk_return(t) /\ UNCHANGED <<fetch, app, resp, produced, pipe, deleted, global_cache, proc>>
    \/ Tick(TickSeconds, MaxTicks) /\ UNCHANGED otherVars

SpecLock == InitLock /\ [][NextLock]_vars

\* thread t takes one of the steps of a call that read or write the tiers
in_body(t) ==
    /\ thread[t].pc \in {"dicts", "files"}
    /\ thread'[t].pc # thread[t].pc

\* C25: every statement of a call that reads or writes memory_cache,
\* cache_metadata or the cache directory is taken by the thread that holds
\* the lock and finds the tiers as the call's previous statement left them
\* (as the call found them at the acquisition, for its first statement), and
\* the tiers change in no other step: the statements of a call act as if
\* they ran without interruption, so the calls take effect one after another
\* in the order of their acquisitions
C25_Atomic ==
    [][/\ \A t \in LockThreads :
             in_body(t) => (lock.owner = t /\ tiers = thread[t].seen)
       /\ (tiers' # tiers) => \E t \in LockThreads : in_body(t)]_vars

\* a set has written the dicts and not yet the directory while the other
\* thread waits for the lock with a get
C25_Witness ==
    \E t \in LockThreads, u \in LockThreads :
        /\ t # u
        /\ lock.owner = t
        /\ thread[t].pc = "files"
        /\ thread[t].call.op = "set"
        /\ thread[u].pc = "acquire"
        /\ thread[u].call.op = "get"

\* C1: on a cache with maxAge > 0, a get(k) that directly follows a set(k, v)
\* that returned True returns a value equal to v
C1_RoundTrip ==
    [][(/\ last.op = "set"
        /\ last.ret = TRUE
        /\ max_age_hours > 0
        /\ last'.op = "get"
        /\ last'.key = last.key) => last'.ret = last.val]_vars

\* a get served from memory a tuple written at this instant
C1_Witness ==
    /\ last.op = "get"
    /\ last.ret = Tuple(1)
    /\ last.served = isoformat(now)
    /\ "hit_memory" \in last.log

\* C2: whatever calls and passage of time came before, a payload returned by
\* get (from memory or repopulated from the data file) has age
\* now - storedAt < max_age_hours * 3600
C2_NoStaleRead ==
    (last.op = "get" /\ last.served # NoTs)
        => (now - fromisoformat(last.served)) < max_age_hours * SecondsPerHour

\* a get served from the data file an entry written before now
C2_Witness ==
    /\ last.op = "get"
    /\ "hit_file" \in last.log
    /\ now > fromisoformat(last.served)

\* the entries the two tiers hold for key (the data file only if readable)
stored_timestamps(key) ==
    {memory_cache[k].timestamp : k \in {key} \cap DOMAIN memory_cache}
    \cup {files[f].timestamp :
            f \in {g \in {get_cache_file_path(key)} \cap DOMAIN files :
                      files[g].kind = "data"}}

\* C3: a get(k) (file fallback allowed) issued later than T + maxAge for the
\* entry of k written at T, held in memory and/or a readable data file,
\* returns a miss, and afterwards neither the memory entry nor the data file
\* nor the metadata file of k exists
C3_Expiry ==
    [][\A key \in Keys :
        (/\ last'.op = "get"
         /\ last'.key = key
         /\ last'.fb
         /\ stored_timestamps(key) # {}
         /\ \A ts \in stored_timestamps(key) :
               now > fromisoformat(ts) + max_age_hours * SecondsPerHour
         /\ \/ get_cache_file_path(key) \notin DOMAIN files
            \/ files[get_cache_file_path(key)].kind = "data")
        => (/\ last'.ret = None
            /\ "miss" \in last'.log
            /\ key \notin DOMAIN memory_cache'
            /\ get_cache_file_path(key) \notin DOMAIN files'
            /\ get_metadata_file_path(key) \notin DOMAIN files')]_vars

\* a get that evicted the stale memory entry and removed the stale files
C3_Witness ==
    /\ last.op = "get"
    /\ last.fb
    /\ {"expired_memory_removed", "expired_file_removed"} \subseteq last.log
    /\ max_age_hours > 0
    /\ get_metadata_file_path(last.key) \notin DOMAIN files

\* C20: a set(k, v) that cannot write the data file or the metadata file
\* returns False (it does not raise), leaves v as the memory entry of k, and
\* the get(k) that follows on a cache with maxAge > 0 returns v
C20_PersistFailure ==
    [][/\ (last'.op = "set" /\ last'.io # "ok") =>
            /\ last'.ret = FALSE
            /\ last'.key \in DOMAIN memory_cache'
            /\ memory_cache'[last'.key].data = last'.val
       /\ (/\ last.op = "set"
           /\ last.io # "ok"
           /\ max_age_hours > 0
           /\ last'.op = "get"
           /\ last'.key = last.key) => last'.ret = last.val]_vars

\* a get answers from memory a payload that has no data file: its set failed
\* before the data file was created
C20_Witness ==
    /\ last.op = "get"
    /\ last.ret = Tuple(1)
    /\ "hit_memory" \in last.log
    /\ get_cache_file_path(last.key) \notin DOMAIN files

\* ---------------------------------------------------------------- SpecFetch
\* what one GET of the session can come to: a transport error or a non-2xx
\* status (raise_for_status), both requests.exceptions.RequestException; a 2xx
\* response with a JSON content-type and a parsable body; one with a JSON
\* content-type whose body does not parse (response.json() raises); a 2xx
\* response of another content-type
Responses == {"transport_error", "http_error", "json", "json_bad_body", "non_json"}

\* what response.json() raises on an unparsable body: a RequestException
\* (requests.exceptions.JSONDecodeError) or a plain ValueError, depending on
\* the installed requests
JsonErrors == {"RequestException", "ValueError"}

\* backoff_factor values tried (seconds)
BackoffFactors == {1, 2}

\* the body of the JSON endpoint
JsonBody == Dict(1)

\* the except clause catches the response
caught(response, json_error) ==
    \/ response \in {"transport_error", "http_error"}
    \/ response = "json_bad_body" /\ json_error = "RequestException"

may_retry_off_by_one(attempt, max_retries) == attempt < max_retries - 1

\* "if attempt < max_retries"
may_retry(attempt, max_retries) == attempt < max_retries

wait_time_linear(backoff_factor, attempt) == backoff_factor * 2 * attempt

\* "wait_time = backoff_factor * (2 ** attempt)"
wait_time(backoff_factor, attempt) == backoff_factor * (2 ^ attempt)

\* the call fetch_with_retry(url, max_retries, backoff_factor)
InitFetch ==
    /\ fetch \in [pc : {"loop"}, max_retries : (-1)..MaxRetries,
                  backoff_factor : BackoffFactors, json_error : JsonErrors,
                  attempt : {0}, responses : {<<>>}, sleeps : {<<>>},
                  ret : {None}, raised : {FALSE}]
    /\ now = 0
    /\ max_age_hours = 0
    /\ memory_cache = Empty
    /\ cache_metadata = Empty
    /\ files = Empty
    /\ last = NoCall
    /\ app = IdleApp
    /\ thread = IdleThreads
    /\ resp = NoResp
    /\ produced = 0
    /\ pipe = IdlePipe
    /\ lock = Unlocked
    /\ deleted = {}
    /\ global_cache = None
    /\ proc = IdleProc

\* one iteration of the for loop of fetch_with_retry: the GET, then either a
\* return (JSON body, or None for a non-JSON response), or an exception that
\* is not caught, or the except clause: sleep and go round again, or None
\* after the last attempt
fetch_attempt(response) ==
    /\ fetch.pc = "loop"
    /\ fetch.attempt < fetch.max_retries + 1
    /\ LET f1 == [fetch EXCEPT !.responses = Append(@, response)]
       IN  fetch' =
            CASE response = "json" ->
                    [f1 EXCEPT !.pc = "done", !.ret = JsonBody]
              [] response = "non_json" ->
                    [f1 EXCEPT !.pc = "done", !.ret = None]
              [] caught(response, fetch.json_error)
                 /\ may_retry(fetch.attempt, fetch.max_retries) ->
                    [f1 EXCEPT !.sleeps = Append(@, wait_time(fetch.backoff_factor,
                                                              fetch.attempt)),
                               !.attempt = @ + 1]
              [] caught(response, fetch.json_error)
                 /\ ~may_retry(fetch.attempt, fetch.max_retries) ->
                    [f1 EXCEPT !.pc = "done", !.ret = None]
              [] OTHER ->
                    [f1 EXCEPT !.pc = "done", !.raised = TRUE]
    /\ UNCHANGED <<now, max_age_hours, memory_cache, cache_metadata, files, last,
                   app, thread, resp, produced, pipe, lock,
          deleted, global_cache, proc>>

\* the loop ends without having returned (range(max_retries + 1) is empty):
\* the final "return None"
fetch_fall_through ==
    /\ fetch.pc = "loop"
    /\ fetch.attempt >= fetch.max_retries + 1
    /\ fetch' = [fetch EXCEPT !.pc = "done", !.ret = None]
    /\ UNCHANGED <<now, max_age_hours, memory_cache, cache_metadata, files, last,
                   app, thread, resp, produced, pipe, lock,
          deleted, global_cache, proc>>

NextFetch ==
    \/ \E response \in Responses : fetch_attempt(response)
    \/ fetch_fall_through

SpecFetch == InitFetch /\ [][NextFetch]_vars

\* number of GETs issued
gets == Len(fetch.responses)

\* transport or non-2xx failure
Failure == {"transport_error", "http_error"}

\* C9: when the endpoint fails (transport or non-2xx) max_retries times and then
\* answers with JSON, fetch_with_retry returns that payload; when every GET
\* fails, it returns None after exactly max_retries + 1 GETs; it never issues
\* more than max_retries + 1 GETs and raises in neither case
C9_AttemptCount ==
    /\ gets <= fetch.max_retries + 1
    /\ (/\ fetch.max_retries >= 0
        /\ gets = fetch.max_retries + 1
        /\ \A i \in 1..fetch.max_retries : fetch.responses[i] \in Failure
        /\ fetch.responses[gets] = "json")
       => (fetch.pc = "done" /\ fetch.ret = JsonBody /\ ~fetch.raised)
    /\ (\A i \in 1..gets : fetch.responses[i] \in Failure)
       => (/\ ~fetch.raised
           /\ fetch.pc = "done" => (gets = fetch.max_retries + 1 /\ fetch.ret = None))

\* three failures, then the payload on the fourth GET
C9_Witness ==
    /\ fetch.pc = "done"
    /\ fetch.max_retries = 3
    /\ gets = 4
    /\ \A i \in 1..3 : fetch.responses[i] \in Failure
    /\ fetch.ret = JsonBody

\* the attempts (0-based) that ended in the except clause
failed_attempts == {a \in 0..(gets - 1) : caught(fetch.responses[a + 1], fetch.json_error)}

Workers == {"w1", "w2"}
Threads == Workers \cup {"sched"}

\* the routes that read or write app.covid_data
Routes == {"api_covid_data", "api_refresh", "api_cache_clear", "api_statistics"}

\* the requests that are tried: reads on one request thread, refreshes and
\* cache clears on the other
RoutesOf(t) ==
    IF t = "w1" THEN {"api_covid_data", "api_statistics"}
    ELSE {"api_refresh", "api_cache_clear"}

\* a thread: the handler it runs, its position in it, the local it holds
\* (cached_data / new_data / response_data) and whether this invocation
\* called the fetcher
Local(h, pc, data, fetched) ==
    [h |-> h, pc |-> pc, data |-> data, fetched |-> fetched]

IdleLocal == Local("none", "idle", None, FALSE)

\* jsonify(...), status: the response of a route
Response(route, status, data, last_update) ==
    [route |-> route, status |-> status, data |-> data, last_update |-> last_update]

\* use_cache of the handler's call of get_covid_tracker_data
use_cache(h) == h = "api_covid_data"

\* where the handler goes on when get_covid_tracker_data returns
after_refresh(h) ==
    CASE h = "api_covid_data" -> "cd_assign"
      [] h = "api_refresh" -> "rf_assign"
      [] h = "scheduled_update" -> "su_if"

\* get_covid_tracker_data begins with the cache read under use_cache, with the
\* fetch otherwise
refresh_entry(h) == IF use_cache(h) THEN "g_cache" ELSE "g_fetch"

\* first position of a route
entry(h) ==
    CASE h = "api_covid_data" -> "cd_check"
      [] h = "api_refresh" -> "rf_clear"
      [] h = "api_cache_clear" -> "cc_clear"
      [] h = "api_statistics" -> "st_if"

cacheUnchanged == UNCHANGED <<now, max_age_hours, memory_cache, cache_metadata, files, fetch, pipe, lock,
          deleted, global_cache, proc>>

\* a step of thread t that touches only its own position and locals
Goto(t, loc) ==
    /\ thread' = [thread EXCEPT ![t] = loc]
    /\ resp' = NoResp
    /\ last' = NoCall
    /\ cacheUnchanged

\* the handler of thread t returns: its locals are gone, the response is sent
Return(t, response) ==
    /\ thread' = [thread EXCEPT ![t] = IdleLocal]
    /\ resp' = response
    /\ last' = NoCall
    /\ cacheUnchanged

At(t, pc) == thread[t].pc = pc
Move(t, pc) == [thread[t] EXCEPT !.pc = pc]
\* a response without a dataset
Status(t, status) == Response(thread[t].h, status, None, NoTs)

\* create_app: no dataset, no timestamp, an empty cache directory
InitApp ==
    /\ now = 0
    /\ max_age_hours = DefaultMaxAgeHours
    /\ memory_cache = Empty
    /\ cache_metadata = Empty
    /\ files = Empty
    /\ last = NoCall
    /\ fetch = IdleFetch
    /\ app = [covid_data |-> None, last_update |-> NoTs]
    /\ thread = [t \in Threads |-> IdleLocal]
    /\ resp = NoResp
    /\ produced = 0
    /\ pipe = IdlePipe
    /\ lock = Unlocked
    /\ deleted = {}
    /\ global_cache = None
    /\ proc = IdleProc

\* a request arrives on a free request thread
start_request(t, h) ==
    /\ t \in Workers
    /\ h \in RoutesOf(t)
    /\ At(t, "idle")
    /\ Goto(t, Local(h, entry(h), None, FALSE))
    /\ UNCHANGED <<app, produced>>

\* get_covid_tracker_data, use_cache: get_covid_data(cache_key); a truthy value
\* is returned, otherwise the fetch follows
g_cache(t) ==
    /\ At(t, "g_cache")
    /\ get(PROCESSED_DATA, TRUE)
    /\ resp' = NoResp
    /\ UNCHANGED <<fetch, pipe, lock,
          deleted, global_cache, proc>>
    /\ LET cached_data == get_result(PROCESSED_DATA, TRUE).ret
       IN  thread' = [thread EXCEPT ![t] =
              IF Truthy(cached_data)
              THEN [@ EXCEPT !.data = cached_data, !.pc = after_refresh(thread[t].h)]
              ELSE [@ EXCEPT !.pc = "g_fetch"]]
    /\ UNCHANGED <<app, produced>>

\* outcomes of fetch_major_cities_data and the processing that follows it
FetchOutcomes == {"data", "no_data", "exception"}

\* get_covid_tracker_data that returns the dataset without storing it
g_fetch_no_store(t, outcome) ==
    /\ At(t, "g_fetch")
    /\ outcome = "data" => produced < MaxDatasets
    /\ IF outcome = "data"
       THEN /\ produced' = produced + 1
            /\ Goto(t, [thread[t] EXCEPT
                   !.fetched = TRUE,
                   !.data = Dict(produced + 1),
                   !.pc = after_refresh(thread[t].h)])
       ELSE /\ produced' = produced
            /\ Goto(t, [thread[t] EXCEPT
                   !.fetched = TRUE, !.data = None,
                   !.pc = after_refresh(thread[t].h)])
    /\ UNCHANGED app

\* get_covid_tracker_data: fetch_major_cities_data, process_cities_data,
\* format_for_fronted.  An empty fetch and an exception both return None; a
\* dataset is stored only under use_cache
g_fetch(t, outcome) ==
    /\ At(t, "g_fetch")
    /\ outcome = "data" => produced < MaxDatasets
    /\ IF outcome = "data"
       THEN /\ produced' = produced + 1
            /\ Goto(t, [thread[t] EXCEPT
                   !.fetched = TRUE,
                   !.data = Dict(produced + 1),
                   !.pc = IF use_cache(thread[t].h) THEN "g_store"
                          ELSE after_refresh(thread[t].h)])
       ELSE /\ produced' = produced
            /\ Goto(t, [thread[t] EXCEPT
                   !.fetched = TRUE, !.data = None,
                   !.pc = after_refresh(thread[t].h)])
    /\ UNCHANGED app

\* get_covid_tracker_data, use_cache: cache_covid_data(cache_key, frontend_data)
g_store(t, io) ==
    /\ At(t, "g_store")
    /\ set(PROCESSED_DATA, thread[t].data, io)
    /\ resp' = NoResp
    /\ UNCHANGED <<fetch, pipe, lock,
          deleted, global_cache, proc>>
    /\ thread' = [thread EXCEPT ![t] = [@ EXCEPT !.pc = after_refresh(thread[t].h)]]
    /\ UNCHANGED <<app, produced>>

\* api_covid_data: "if app.covid_data is None" starts the lazy load
cd_check(t) ==
    /\ At(t, "cd_check")
    /\ Goto(t, Move(t, IF app.covid_data = None THEN refresh_entry(thread[t].h)
                       ELSE "cd_if"))
    /\ UNCHANGED <<app, produced>>

\* api_covid_data: app.covid_data = get_covid_tracker_data(...)
cd_assign(t) ==
    /\ At(t, "cd_assign")
    /\ app' = [app EXCEPT !.covid_data = thread[t].data]
    /\ Goto(t, Move(t, "cd_ts"))
    /\ UNCHANGED produced

\* api_covid_data: app.last_update = datetime.now().isoformat()
cd_ts(t) ==
    /\ At(t, "cd_ts")
    /\ app' = [app EXCEPT !.last_update = isoformat(now)]
    /\ Goto(t, Move(t, "cd_if"))
    /\ UNCHANGED produced

\* api_covid_data: "if app.covid_data:", else the 503 response
cd_if(t) ==
    /\ At(t, "cd_if")
    /\ IF Truthy(app.covid_data)
       THEN Goto(t, Move(t, "cd_copy"))
       ELSE Return(t, Status(t, 503))
    /\ UNCHANGED <<app, produced>>

\* api_covid_data: response_data = app.covid_data.copy(); on None the
\* AttributeError is caught by the handler and answered with 500
cd_copy(t) ==
    /\ At(t, "cd_copy")
    /\ IF app.covid_data = None
       THEN Return(t, Status(t, 500))
       ELSE Goto(t, [thread[t] EXCEPT !.data = app.covid_data, !.pc = "cd_lu"])
    /\ UNCHANGED <<app, produced>>

\* api_covid_data: response_data['last_update'] = app.last_update; jsonify
cd_lu(t) ==
    /\ At(t, "cd_lu")
    /\ Return(t, Response(thread[t].h, 200, thread[t].data, app.last_update))
    /\ UNCHANGED <<app, produced>>

\* api_refresh: clear_covid_cache()
rf_clear(t) ==
    /\ At(t, "rf_clear")
    /\ clear_all(json_files, TRUE)
    /\ resp' = NoResp
    /\ UNCHANGED <<fetch, pipe, lock,
          deleted, global_cache, proc>>
    /\ thread' = [thread EXCEPT ![t] = [@ EXCEPT !.pc = refresh_entry(thread[t].h)]]
    /\ UNCHANGED <<app, produced>>

\* api_refresh: app.covid_data = get_covid_tracker_data(..., use_cache=False)
rf_assign(t) ==
    /\ At(t, "rf_assign")
    /\ app' = [app EXCEPT !.covid_data = thread[t].data]
    /\ Goto(t, Move(t, "rf_ts"))
    /\ UNCHANGED produced

\* api_refresh: app.last_update = datetime.now().isoformat()
rf_ts(t) ==
    /\ At(t, "rf_ts")
    /\ app' = [app EXCEPT !.last_update = isoformat(now)]
    /\ Goto(t, Move(t, "rf_if"))
    /\ UNCHANGED produced

\* api_refresh: "if app.covid_data:", else the 500 "Failed to refresh data"
rf_if(t) ==
    /\ At(t, "rf_if")
    /\ IF Truthy(app.covid_data)
       THEN Goto(t, Move(t, "rf_count"))
       ELSE Return(t, Status(t, 500))
    /\ UNCHANGED <<app, produced>>

\* api_refresh: len(app.covid_data.get('cities', [])); on None the
\* AttributeError is answered with 500
rf_count(t) ==
    /\ At(t, "rf_count")
    /\ Return(t, Status(t, IF app.covid_data = None THEN 500 ELSE 200))
    /\ UNCHANGED <<app, produced>>

\* api_cache_clear: success = clear_covid_cache()
cc_clear(t) ==
    /\ At(t, "cc_clear")
    /\ clear_all(json_files, TRUE)
    /\ resp' = NoResp
    /\ UNCHANGED <<fetch, pipe, lock,
          deleted, global_cache, proc>>
    /\ thread' = [thread EXCEPT ![t] = [@ EXCEPT !.pc = "cc_data"]]
    /\ UNCHANGED <<app, produced>>

\* api_cache_clear: app.covid_data = None
cc_data(t) ==
    /\ At(t, "cc_data")
    /\ app' = [app EXCEPT !.covid_data = None]
    /\ Goto(t, Move(t, "cc_ts"))
    /\ UNCHANGED produced

\* api_cache_clear: app.last_update = None, then the response
cc_ts(t) ==
    /\ At(t, "cc_ts")
    /\ app' = [app EXCEPT !.last_update = NoTs]
    /\ Return(t, Status(t, 200))
    /\ UNCHANGED produced

\* api_statistics: "if app.covid_data", else the 404 response
st_if(t) ==
    /\ At(t, "st_if")
    /\ IF Truthy(app.covid_data)
       THEN Goto(t, Move(t, "st_in"))
       ELSE Return(t, Status(t, 404))
    /\ UNCHANGED <<app, produced>>

\* api_statistics: "'statistics' in app.covid_data"; on None the TypeError is
\* answered with 500
st_in(t) ==
    /\ At(t, "st_in")
    /\ IF app.covid_data = None
       THEN Return(t, Status(t, 500))
       ELSE Goto(t, Move(t, "st_get"))
    /\ UNCHANGED <<app, produced>>

\* api_statistics: stats = app.covid_data['statistics'].copy(); on None the
\* TypeError is answered with 500
st_get(t) ==
    /\ At(t, "st_get")
    /\ IF app.covid_data = None
       THEN Return(t, Status(t, 500))
       ELSE Goto(t, [thread[t] EXCEPT !.data = app.covid_data, !.pc = "st_lu"])
    /\ UNCHANGED <<app, produced>>

\* api_statistics: stats['last_update'] = app.last_update; jsonify
st_lu(t) ==
    /\ At(t, "st_lu")
    /\ Return(t, Response(thread[t].h, 200, thread[t].data, app.last_update))
    /\ UNCHANGED <<app, produced>>

\* the interval trigger fires scheduled_update, which calls
\* get_covid_tracker_data(..., use_cache=False)
start_scheduled(t) ==
    /\ t = "sched"
    /\ At(t, "idle")
    /\ Goto(t, Local("scheduled_update", refresh_entry("scheduled_update"), None, FALSE))
    /\ UNCHANGED <<app, produced>>

\* scheduled_update: "if new_data: app.covid_data = new_data"
su_if(t) ==
    /\ At(t, "su_if")
    /\ IF Truthy(thread[t].data)
       THEN /\ app' = [app EXCEPT !.covid_data = thread[t].data]
            /\ Goto(t, Move(t, "su_ts"))
       ELSE /\ app' = app
            /\ Goto(t, IdleLocal)
    /\ UNCHANGED produced

\* scheduled_update: app.last_update = datetime.now().isoformat()
su_ts(t) ==
    /\ At(t, "su_ts")
    /\ app' = [app EXCEPT !.last_update = isoformat(now)]
    /\ Goto(t, IdleLocal)
    /\ UNCHANGED produced

\* time passes in the running application
AppTick ==
    /\ Tick(AppTickSeconds, MaxAppTicks)
    /\ resp' = NoResp
    /\ UNCHANGED <<app, thread, produced, fetch, pipe, lock,
          deleted, global_cache, proc>>

NextApp ==
    \/ \E t \in Workers, h \in Routes : start_request(t, h)
    \/ \E t \in Threads : g_cache(t)
    \/ \E t \in Threads, outcome \in FetchOutcomes : g_fetch(t, outcome)
    \/ \E t \in Threads, io \in SetIO : g_store(t, io)
    \/ \E t \in Threads : cd_check(t)
    \/ \E t \in Threads : cd_assign(t)
    \/ \E t \in Threads : cd_ts(t)
    \/ \E t \in Threads : cd_if(t)
    \/ \E t \in Threads : cd_copy(t)
    \/ \E t \in Threads : cd_lu(t)
    \/ \E t \in Threads : rf_clear(t)
    \/ \E t \in Threads : rf_assign(t)
    \/ \E t \in Threads : rf_ts(t)
    \/ \E t \in Threads : rf_if(t)
    \/ \E t \in Threads : rf_count(t)
    \/ \E t \in Threads : cc_clear(t)
    \/ \E t \in Threads : cc_data(t)
    \/ \E t \in Threads : cc_ts(t)
    \/ \E t \in Threads : st_if(t)
    \/ \E t \in Threads : st_in(t)
    \/ \E t \in Threads : st_get(t)
    \/ \E t \in Threads : st_lu(t)
    \/ \E t \in Threads : start_scheduled(t)
    \/ \E t \in Threads : su_if(t)
    \/ \E t \in Threads : su_ts(t)
    \/ AppTick

SpecApp == InitApp /\ [][NextApp]_vars

\* C39: when no handler is running, app.last_update is set exactly when
\* app.covid_data holds a dataset
C39_Paired ==
    (\A t \in Threads : thread[t].pc = "idle") =>
        ((app.last_update # NoTs) <=> (app.covid_data # None))

\* the threads inside the fetch-and-process part of get_covid_tracker_data
refreshing == {t \in Threads : thread[t].pc \in {"g_fetch", "g_store"}}

\* C4: at most one fetch-and-process refresh executes at any time, whichever
\* entry points (scheduled, manual, lazy) asked for it
C4_SingleFlight == Cardinality(refreshing) <= 1

\* the routes that read the current dataset
Readers == {"api_covid_data", "api_statistics"}

\* C5: a reader never sees the dataset present at its check and absent at its
\* use (which its handler answers with status 500)
C5_AtomicSwap == ~(resp.route \in Readers /\ resp.status = 500)

\* thread t takes this step
Steps(t) == thread'[t] # thread[t]

\* C6: a current dataset is replaced by None only by the cache clear, never by
\* a refresh (scheduled, manual or lazy) that failed
C6_KeepLastKnown ==
    [][(Truthy(app.covid_data) /\ app'.covid_data = None)
        => \E t \in Threads : At(t, "cc_data") /\ Steps(t)]_vars

\* the fresh payload the Cache Store holds for key: the memory entry if fresh,
\* else the readable data file if fresh, else None
fresh_entry(key) ==
    IF key \in DOMAIN memory_cache /\ is_cache_valid(memory_cache[key].timestamp)
    THEN memory_cache[key].data
    ELSE IF /\ get_cache_file_path(key) \in DOMAIN files
            /\ files[get_cache_file_path(key)].kind = "data"
            /\ is_cache_valid(files[get_cache_file_path(key)].timestamp)
    THEN files[get_cache_file_path(key)].data
    ELSE None

\* thread t returns from get_covid_tracker_data in this step
Returns(t) ==
    /\ thread[t].pc \in {"g_cache", "g_fetch", "g_store"}
    /\ thread'[t].pc = after_refresh(thread[t].h)

\* C7: a cache-allowed refresh that finds a fresh dataset under the processed
\* key returns it without calling the fetcher; on a miss it goes on to the
\* fetcher; and when it returns a dataset, the Cache Store holds that dataset
\* fresh under the key, so the next cache-allowed refresh is a hit on it
C7_RefreshWithCache ==
    [][\A t \in Threads :
        /\ (At(t, "g_cache") /\ Steps(t))
            => IF Truthy(fresh_entry(PROCESSED_DATA))
               THEN /\ Returns(t)
                    /\ thread'[t].data = fresh_entry(PROCESSED_DATA)
                    /\ ~thread'[t].fetched
                    /\ produced' = produced
               ELSE thread'[t].pc = "g_fetch"
        /\ (use_cache(thread[t].h) /\ Returns(t) /\ Truthy(thread'[t].data))
            => fresh_entry(PROCESSED_DATA)' = thread'[t].data]_vars

\* a lazy load that was a cache hit on a dataset stored by an earlier one
C7_Witness ==
    /\ last.op = "get"
    /\ "hit_memory" \in last.log
    /\ \E t \in Threads :
          /\ thread[t].pc = "cd_assign"
          /\ ~thread[t].fetched
          /\ thread[t].data = last.ret
          /\ Truthy(thread[t].data)

\* C8: when a refresh, forced or not, returns the dataset it produced, the
\* Cache Store entry under the processed key is that dataset
C8_CacheHoldsLatest ==
    [][\A t \in Threads :
        (Returns(t) /\ thread'[t].fetched /\ Truthy(thread'[t].data))
            => /\ PROCESSED_DATA \in DOMAIN memory_cache'
               /\ memory_cache'[PROCESSED_DATA].data = thread'[t].data]_vars

\* ----------------------------------------------------------------- SpecPipe
\* One run of the data pipeline: DataFetcher.fetch_major_cities_data on the
\* payloads the upstream endpoints return, then DataProcessor.process_cities_data
\* and format_for_fronted, as get_covid_tracker_data chains them.

\* most records in the /countries payload and in the /states payload
MaxCountries == 2
MaxStates == 1

\* a * b = q * c + r with 0 <= r < c, for a, b >= 0 and 0 < c < 2^30; computed
\* over the bits of b so that no intermediate value leaves 32 bits
RECURSIVE muldiv(_, _, _)
muldiv(a, b, c) ==
    IF b = 0 THEN [q |-> 0, r |-> 0]
    ELSE LET h == muldiv(a, b \div 2, c)
             q2 == 2 * h.q + (2 * h.r) \div c
             r2 == (2 * h.r) % c
         IN  IF b % 2 = 0 THEN [q |-> q2, r |-> r2]
             ELSE [q |-> q2 + (a \div c) + ((r2 + (a % c)) \div c),
                   r |-> (r2 + (a % c)) % c]

\* int(x * (num / den)) of Python: the product truncated toward zero
int_mul(x, num, den) ==
    IF x >= 0 THEN muldiv(x, num, den).q ELSE 0 - muldiv(0 - x, num, den).q

max(a, b) == IF a >= b THEN a ELSE b
min(a, b) == IF a <= b THEN a ELSE b

\* JSON values of the upstream payloads: an integer, null (None above), or a
\* non-numeric string
Number(n) == [type |-> "int", id |-> n]
Str == [type |-> "str", id |-> 1]
IsInt(v) == v.type = "int"

\* dict.get(f, default)
dict_get(d, f, default) == IF f \in DOMAIN d THEN d[f] ELSE default

\* what a helper returns for a record it skipped, and what marks an exception
\* that left the function
Skipped == [type |-> "skipped"]
Raised == [type |-> "raised"]

\* DataFetcher._get_major_world_cities: the reference table; lat and lon in
\* millionths of a degree, state "" where the row has no state
major_world_cities ==
    <<
      [name |-> "New York", country |-> "USA", state |-> "New York", lat |-> 40712800, lon |-> -74006000, population |-> 8336817],
      [name |-> "Los Angeles", country |-> "USA", state |-> "California", lat |-> 34052200, lon |-> -118243700, population |-> 3979576],
      [name |-> "Chicago", country |-> "USA", state |-> "Illinois", lat |-> 41878100, lon |-> -87629800, population |-> 2693976],
      [name |-> "Toronto", country |-> "Canada", state |-> "", lat |-> 43653200, lon |-> -79383200, population |-> 2731571],
      [name |-> "Mexico City", country |-> "Mexico", state |-> "", lat |-> 19432600, lon |-> -99133200, population |-> 21580000],
      [name |-> "London", country |-> "UK", state |-> "", lat |-> 51507400, lon |-> -127800, population |-> 9648110],
      [name |-> "Paris", country |-> "France", state |-> "", lat |-> 48856600, lon |-> 2352200, population |-> 2161000],
      [name |-> "Berlin", country |-> "Germany", state |-> "", lat |-> 52520000, lon |-> 13405000, population |-> 3669491],
      [name |-> "Madrid", country |-> "Spain", state |-> "", lat |-> 40416800, lon |-> -3703800, population |-> 6642000],
      [name |-> "Rome", country |-> "Italy", state |-> "", lat |-> 41902800, lon |-> 12496400, population |-> 2872800],
      [name |-> "Amsterdam", country |-> "Netherlands", state |-> "", lat |-> 52367600, lon |-> 4904100, population |-> 872680],
      [name |-> "Tokyo", country |-> "Japan", state |-> "", lat |-> 35676200, lon |-> 139650300, population |-> 37400068],
      [name |-> "Beijing", country |-> "China", state |-> "", lat |-> 39904200, lon |-> 116407400, population |-> 21540000],
      [name |-> "Mumbai", country |-> "India", state |-> "", lat |-> 19076000, lon |-> 72877700, population |-> 20400000],
      [name |-> "Seoul", country |-> "South Korea", state |-> "", lat |-> 37566500, lon |-> 126978000, population |-> 9720846],
      [name |-> "Singapore", country |-> "Singapore", state |-> "", lat |-> 1352100, lon |-> 103819800, population |-> 5850342],
      [name |-> "Bangkok", country |-> "Thailand", state |-> "", lat |-> 13756300, lon |-> 100501800, population |-> 10350000],
      [name |-> "Jakarta", country |-> "Indonesia", state |-> "", lat |-> -6208800, lon |-> 106845600, population |-> 10560000],
      [name |-> "Dubai", country |-> "UAE", state |-> "", lat |-> 25204800, lon |-> 55270800, population |-> 3400000],
      [name |-> "Istanbul", country |-> "Turkey", state |-> "", lat |-> 41008200, lon |-> 28978400, population |-> 15460000],
      [name |-> "Cairo", country |-> "Egypt", state |-> "", lat |-> 30044400, lon |-> 31235700, population |-> 20900000],
      [name |-> "Lagos", country |-> "Nigeria", state |-> "", lat |-> 6524400, lon |-> 3379200, population |-> 15300000],
      [name |-> "Johannesburg", country |-> "South Africa", state |-> "", lat |-> -26204100, lon |-> 28047300, population |-> 4434827],
      [name |-> "Sao Paulo", country |-> "Brazil", state |-> "", lat |-> -23555800, lon |-> -46639600, population |-> 12400000],
      [name |-> "Buenos Aires", country |-> "Argentina", state |-> "", lat |-> -34611800, lon |-> -58396000, population |-> 15200000],
      [name |-> "Lima", country |-> "Peru", state |-> "", lat |-> -12046400, lon |-> -77042800, population |-> 10700000],
      [name |-> "Sydney", country |-> "Australia", state |-> "", lat |-> -33868800, lon |-> 151209300, population |-> 5312163],
      [name |-> "Melbourne", country |-> "Australia", state |-> "", lat |-> -37813600, lon |-> 144963100, population |-> 5078193]
    >>

\* the capital coordinates table of DataFetcher._get_country_coordinates
country_coords ==
    <<
      [country |-> "USA", lat |-> 38907200, lon |-> -77036900],
      [country |-> "China", lat |-> 39904200, lon |-> 116407400],
      [country |-> "India", lat |-> 28613900, lon |-> 77209000],
      [country |-> "Brazil", lat |-> -15794200, lon |-> -47882200],
      [country |-> "Russia", lat |-> 55755800, lon |-> 37617600],
      [country |-> "UK", lat |-> 51507400, lon |-> -127800],
      [country |-> "France", lat |-> 48856600, lon |-> 2352200],
      [country |-> "Germany", lat |-> 52520000, lon |-> 13405000],
      [country |-> "Iran", lat |-> 35689200, lon |-> 51389000],
      [country |-> "Turkey", lat |-> 39933400, lon |-> 32859700],
      [country |-> "Italy", lat |-> 41902800, lon |-> 12496400],
      [country |-> "Spain", lat |-> 40416800, lon |-> -3703800],
      [country |-> "Argentina", lat |-> -34611800, lon |-> -58396000],
      [country |-> "Colombia", lat |-> 4711000, lon |-> -74072100],
      [country |-> "Poland", lat |-> 52229700, lon |-> 21012200],
      [country |-> "Ukraine", lat |-> 50450100, lon |-> 30523400],
      [country |-> "South Africa", lat |-> -25747900, lon |-> 28229300],
      [country |-> "Peru", lat |-> -12046400, lon |-> -77042800],
      [country |-> "Indonesia", lat |-> -6208800, lon |-> 106845600],
      [country |-> "Netherlands", lat |-> 52367600, lon |-> 4904100],
      [country |-> "Chile", lat |-> -33448900, lon |-> -70669300],
      [country |-> "Romania", lat |-> 44426800, lon |-> 26102500],
      [country |-> "Israel", lat |-> 31768300, lon |-> 35213700],
      [country |-> "Belgium", lat |-> 50850300, lon |-> 4351700],
      [country |-> "Iraq", lat |-> 33315200, lon |-> 44366100],
      [country |-> "Bangladesh", lat |-> 23810300, lon |-> 90412500],
      [country |-> "Sweden", lat |-> 59329300, lon |-> 18068600],
      [country |-> "Portugal", lat |-> 38722300, lon |-> -9139300],
      [country |-> "Japan", lat |-> 35676200, lon |-> 139650300],
      [country |-> "Serbia", lat |-> 44786600, lon |-> 20448900],
      [country |-> "Switzerland", lat |-> 46948000, lon |-> 7447400],
      [country |-> "Hungary", lat |-> 47497900, lon |-> 19040200],
      [country |-> "Jordan", lat |-> 31945400, lon |-> 35928400],
      [country |-> "Austria", lat |-> 48208200, lon |-> 16373800],
      [country |-> "Morocco", lat |-> 34020900, lon |-> -6841600],
      [country |-> "Lebanon", lat |-> 33854700, lon |-> 35862300],
      [country |-> "Saudi Arabia", lat |-> 24713600, lon |-> 46675300],
      [country |-> "South Korea", lat |-> 37566500, lon |-> 126978000]
    >>

\* the table of DataFetcher._get_state_coordinates
state_coords ==
    <<
      [state |-> "Alabama", lat |-> 32361700, lon |-> -86279200],
      [state |-> "Alaska", lat |-> 58301900, lon |-> -134419700],
      [state |-> "Arizona", lat |-> 33448400, lon |-> -112074000],
      [state |-> "Arkansas", lat |-> 34746500, lon |-> -92289600],
      [state |-> "California", lat |-> 38581600, lon |-> -121494400],
      [state |-> "Colorado", lat |-> 39739100, lon |-> -104984700],
      [state |-> "Connecticut", lat |-> 41765800, lon |-> -72673400],
      [state |-> "Delaware", lat |-> 39161200, lon |-> -75526400],
      [state |-> "Florida", lat |-> 30451800, lon |-> -84272770],
      [state |-> "Georgia", lat |-> 33749000, lon |-> -84388000],
      [state |-> "Hawaii", lat |-> 21309900, lon |-> -157858100],
      [state |-> "Idaho", lat |-> 43615000, lon |-> -116202300],
      [state |-> "Illinois", lat |-> 39781700, lon |-> -89650100],
      [state |-> "Indiana", lat |-> 39791000, lon |-> -86148000],
      [state |-> "Iowa", lat |-> 41588800, lon |-> -93620300],
      [state |-> "Kansas", lat |-> 39040000, lon |-> -95690000],
      [state |-> "Kentucky", lat |-> 38200900, lon |-> -84873300],
      [state |-> "Louisiana", lat |-> 30451500, lon |-> -91187100],
      [state |-> "Maine", lat |-> 44310600, lon |-> -69779500],
      [state |-> "Maryland", lat |-> 38972900, lon |-> -76501200],
      [state |-> "Massachusetts", lat |-> 42235200, lon |-> -71027500],
      [state |-> "Michigan", lat |-> 42358400, lon |-> -84955100],
      [state |-> "Minnesota", lat |-> 44953700, lon |-> -93090000],
      [state |-> "Mississippi", lat |-> 32354000, lon |-> -90178100],
      [state |-> "Missouri", lat |-> 38572954, lon |-> -92189283],
      [state |-> "Montana", lat |-> 46595805, lon |-> -112027031],
      [state |-> "Nebraska", lat |-> 40809868, lon |-> -96675345],
      [state |-> "Nevada", lat |-> 39161921, lon |-> -119767403],
      [state |-> "New Hampshire", lat |-> 43220093, lon |-> -71549896],
      [state |-> "New Jersey", lat |-> 40221741, lon |-> -74756138],
      [state |-> "New Mexico", lat |-> 35667231, lon |-> -105964575],
      [state |-> "New York", lat |-> 42659829, lon |-> -73781339],
      [state |-> "North Carolina", lat |-> 35771000, lon |-> -78638000],
      [state |-> "North Dakota", lat |-> 46813343, lon |-> -100779004],
      [state |-> "Ohio", lat |-> 39961176, lon |-> -82998794],
      [state |-> "Oklahoma", lat |-> 35482309, lon |-> -97534994],
      [state |-> "Oregon", lat |-> 44931109, lon |-> -123029159],
      [state |-> "Pennsylvania", lat |-> 40269789, lon |-> -76875613],
      [state |-> "Rhode Island", lat |-> 41823550, lon |-> -71422132],
      [state |-> "South Carolina", lat |-> 34000000, lon |-> -81035000],
      [state |-> "South Dakota", lat |-> 44367966, lon |-> -100336378],
      [state |-> "Tennessee", lat |-> 36165000, lon |-> -86784000],
      [state |-> "Texas", lat |-> 30266667, lon |-> -97750000],
      [state |-> "Utah", lat |-> 40777477, lon |-> -111888237],
      [state |-> "Vermont", lat |-> 44266390, lon |-> -72581330],
      [state |-> "Virginia", lat |-> 37540000, lon |-> -77460000],
      [state |-> "Washington", lat |-> 47042418, lon |-> -122893077],
      [state |-> "West Virginia", lat |-> 38349497, lon |-> -81633294],
      [state |-> "Wisconsin", lat |-> 43074722, lon |-> -89384444],
      [state |-> "Wyoming", lat |-> 41145548, lon |-> -104802042]
    >>

\* DataFetcher._get_country_coordinates: the row of the country, or Skipped
get_country_coordinates(country_name) ==
    LET rows == SelectSeq(country_coords, LAMBDA row : row.country = country_name)
    IN  IF rows = <<>> THEN Skipped ELSE rows[1]

\* DataFetcher._get_state_coordinates; the default is the US centre
get_state_coordinates(state_name) ==
    LET rows == SelectSeq(state_coords, LAMBDA row : row.state = state_name)
        us_center == [state |-> "", lat |-> 39828300, lon |-> -98579500]
    IN  IF rows = <<>> THEN us_center ELSE rows[1]

\* a raw location record as fetch_major_cities_data emits it; the counts are
\* JSON values because state and country records pass upstream values through.
\* pre is not a field of the program's dict: it keeps the cases and recovered
\* figures the recovery test was applied to
Location(type, name, country, lat, lon, population, cases, deaths, recovered, active, estimated, estimation, pre_cases, pre_recovered) ==
    [type |-> type, name |-> name, country |-> country, lat |-> lat, lon |-> lon,
     population |-> population, cases |-> cases, deaths |-> deaths,
     recovered |-> recovered, active |-> active,
     estimated |-> estimated, estimation |-> estimation,
     pre |-> [cases |-> pre_cases, recovered |-> pre_recovered]]

\* the estimate without its ceiling of 95% of the cases
estimated_recovered_uncapped(total_cases, deaths) ==
    int_mul(total_cases - deaths, 96, 100)

\* the estimate of recoveries all tiers use:
\* min(int((total_cases - deaths) * 0.96), int(total_cases * 0.95))
estimated_recovered(total_cases, deaths) ==
    min(int_mul(total_cases - deaths, 96, 100), int_mul(total_cases, 95, 100))

\* recovered / total_cases < 0.1, with the rate 0 when there are no cases
low_recovery_rate(recovered, total_cases) ==
    IF total_cases > 0 THEN 10 * recovered < total_cases ELSE TRUE

\* the lines of _process_state_data / _process_country_data that raise a
\* TypeError on a null or a string: the comparison total_cases > 0, the
\* division recovered / total_cases, the subtraction total_cases - deaths
region_raises(cases, deaths, recovered) ==
    \/ ~IsInt(cases)
    \/ cases.id > 0 /\ ~IsInt(recovered)
    \/ cases.id > 0 /\ low_recovery_rate(recovered.id, cases.id) /\ ~IsInt(deaths)

\* the estimation block shared by _process_state_data and _process_country_data
region_record(type, name, country, lat, lon, population, cases, deaths, recovered, active) ==
    IF region_raises(cases, deaths, recovered) THEN Skipped
    ELSE IF cases.id > 0 /\ low_recovery_rate(recovered.id, cases.id)
         THEN LET est == max(estimated_recovered(cases.id, deaths.id), 0)
              IN  Location(type, name, country, lat, lon, population, cases, deaths,
                           Number(est), Number(max(0, cases.id - deaths.id - est)),
                           TRUE, Number(est), cases, recovered)
         ELSE Location(type, name, country, lat, lon, population, cases, deaths,
                       recovered, active, FALSE, None, cases, recovered)

\* DataFetcher._process_state_data: None (Skipped) when the block raised
process_state_data(state) ==
    LET coords == get_state_coordinates(dict_get(state, "state", ""))
    IN  region_record("state", dict_get(state, "state", "Unknown State"), "USA",
                      coords.lat, coords.lon,
                      dict_get(state, "population", Number(1000000)),
                      dict_get(state, "cases", Number(0)),
                      dict_get(state, "deaths", Number(0)),
                      dict_get(state, "recovered", Number(0)),
                      dict_get(state, "active", Number(0)))

\* DataFetcher._process_country_data on a country_info of _get_major_countries
process_country_data(country) ==
    region_record("country", dict_get(country, "country", "Unknown Country"),
                  dict_get(country, "country", "Unknown Country"),
                  dict_get(country, "lat", 0), dict_get(country, "lon", 0),
                  dict_get(country, "population", Number(1)),
                  dict_get(country, "cases", Number(0)),
                  dict_get(country, "deaths", Number(0)),
                  dict_get(country, "recovered", Number(0)),
                  dict_get(country, "active", Number(0)))

\* the names country_lookup files a country object under
lookup_names(country) ==
    LET country_name == dict_get(country, "country", "")
    IN  {country_name} \cup
        (CASE country_name = "United Kingdom" -> {"UK"}
           [] country_name = "United States" -> {"USA"}
           [] country_name = "Korea, South" -> {"South Korea"}
           [] OTHER -> {})

\* country_lookup.get(name): the last object filed under the name
country_lookup(countries_data, name) ==
    LET idx == {i \in 1..Len(countries_data) : name \in lookup_names(countries_data[i])}
    IN  IF idx = {} THEN Skipped
        ELSE countries_data[CHOOSE i \in idx : \A j \in idx : j <= i]

\* state_lookup.get(name) for the state_lookup fetch_major_cities_data builds:
\* the last state object of that name, nothing when the states fetch failed
state_lookup(us_states_data, name) ==
    IF us_states_data = None THEN Skipped
    ELSE LET states == us_states_data.items
             idx == {i \in 1..Len(states) : dict_get(states[i], "state", "") = name}
         IN  IF idx = {} THEN Skipped
             ELSE states[CHOOSE i \in idx : \A j \in idx : j <= i]

\* city_case_ratio as a fraction num / den:
\* min(city_population / state_population * 1.5, 0.3), 0.1 * 1.5 without a
\* positive state population
state_case_ratio(city_population, state_population) ==
    IF state_population <= 0 THEN [num |-> 15, den |-> 100]
    ELSE IF 5 * city_population >= state_population THEN [num |-> 3, den |-> 10]
    ELSE [num |-> 3 * city_population, den |-> 2 * state_population]

\* min(population_ratio * 2, 0.15), population_ratio 0.01 without a positive
\* country population
usa_case_ratio(city_population, country_population) ==
    IF country_population <= 0 THEN [num |-> 2, den |-> 100]
    ELSE IF 40 * city_population >= 3 * country_population THEN [num |-> 15, den |-> 100]
    ELSE [num |-> 2 * city_population, den |-> country_population]

\* population_ratio * 3 without the ceiling of 0.2
world_case_ratio_uncapped(city_population, country_population) ==
    IF country_population <= 0 THEN [num |-> 3, den |-> 100]
    ELSE [num |-> 3 * city_population, den |-> country_population]

\* min(population_ratio * 3, 0.2)
world_case_ratio(city_population, country_population) ==
    IF country_population <= 0 THEN [num |-> 3, den |-> 100]
    ELSE IF 15 * city_population >= country_population THEN [num |-> 2, den |-> 10]
    ELSE [num |-> 3 * city_population, den |-> country_population]

\* city_figures without the ceiling of 30% of the city's population
city_figures_no_cap(city_population, cases, deaths0, recovered0) ==
    LET total_cases == max(cases, 100)
        deaths == min(deaths0, int_mul(total_cases, 5, 100))
        low == low_recovery_rate(recovered0, total_cases)
        est == estimated_recovered(total_cases, deaths)
        recovered1 == IF low THEN est ELSE recovered0
        over == deaths + recovered1 > total_cases
        recovered2 == IF over THEN max(0, total_cases - deaths) ELSE recovered1
    IN  [cases |-> total_cases, deaths |-> deaths, recovered |-> recovered2,
         active |-> max(0, total_cases - deaths - recovered2), estimated |-> low,
         estimation |-> IF low THEN Number(recovered2) ELSE None,
         pre_recovered |-> recovered0]

\* lines 362-417 of _process_city_data on the allocated integer figures
city_figures(city_population, cases, deaths0, recovered0) ==
    LET total_cases == min(max(cases, 100), int_mul(city_population, 3, 10))
        deaths == min(deaths0, int_mul(total_cases, 5, 100))
        low == low_recovery_rate(recovered0, total_cases)
        est == estimated_recovered(total_cases, deaths)
        recovered1 == IF low THEN est ELSE recovered0
        estimation1 == IF low THEN Number(est) ELSE None
        over == deaths + recovered1 > total_cases
        recovered2 == IF over THEN max(0, total_cases - deaths) ELSE recovered1
        estimation2 == IF over /\ low THEN Number(recovered2) ELSE estimation1
        active1 == max(0, total_cases - deaths - recovered2)
        max_realistic_active == int_mul(city_population, 2, 100)
        capped == active1 > max_realistic_active
        active_cases == IF capped THEN max_realistic_active ELSE active1
        recovered3 == IF capped THEN max(0, total_cases - deaths - active_cases)
                      ELSE recovered2
        estimation3 == IF capped /\ low THEN Number(recovered3) ELSE estimation2
    IN  [cases |-> total_cases, deaths |-> deaths, recovered |-> recovered3,
         active |-> active_cases, estimated |-> low, estimation |-> estimation3,
         pre_recovered |-> recovered0]

\* DataFetcher._process_city_data: None (Skipped) without country data or when
\* a comparison or product on a null or a string raised
process_city_data(city, countries_data, us_states_data) ==
    LET country_data == country_lookup(countries_data, city.country)
        country_population == dict_get(country_data, "population", Number(1))
        state_data == IF city.country = "USA" /\ city.state # ""
                      THEN state_lookup(us_states_data, city.state)
                      ELSE Skipped
        base == IF state_data # Skipped THEN state_data ELSE country_data
        base_population == dict_get(base, "population", Number(1))
        city_case_ratio ==
            IF state_data # Skipped
            THEN state_case_ratio(city.population, base_population.id)
            ELSE IF city.country = "USA" /\ city.state # ""
                 THEN usa_case_ratio(city.population, country_population.id)
                 ELSE world_case_ratio(city.population, country_population.id)
        counts == [f \in {"cases", "deaths", "recovered", "active"} |->
                      dict_get(base, f, Number(0))]
        share(f) == int_mul(counts[f].id, city_case_ratio.num, city_case_ratio.den)
    IN  IF country_data = Skipped THEN Skipped
        ELSE IF ~IsInt(country_population) \/ ~IsInt(base_population) THEN Skipped
        ELSE IF \E f \in DOMAIN counts : ~IsInt(counts[f]) THEN Skipped
        ELSE LET fig == city_figures(city.population, share("cases"),
                                     share("deaths"), share("recovered"))
             IN  Location("city", city.name, city.country, city.lat, city.lon,
                          Number(city.population), Number(fig.cases), Number(fig.deaths),
                          Number(fig.recovered), Number(fig.active),
                          fig.estimated, fig.estimation,
                          Number(fig.cases), Number(fig.pre_recovered))

\* what fetch_with_retry hands a wrapper: None, a JSON array or a JSON object
JsonList(items) == [type |-> "list", items |-> items]
JsonDict(obj) == [type |-> "dict", obj |-> obj]

\* DataFetcher.validate_global_data
validate_global_data(data) ==
    /\ data.type = "dict"
    /\ {"cases", "deaths", "recovered", "updated"} \subseteq DOMAIN data.obj

\* DataFetcher.validate_country_data (no caller in the repository)
validate_country_data(data) ==
    {"country", "cases", "deaths", "recovered"} \subseteq DOMAIN data

\* DataFetcher.fetch_global_data on the result of fetch_with_retry
fetch_global_data(data) ==
    IF data # None /\ validate_global_data(data) THEN data ELSE None

\* DataFetcher.fetch_countries_data: a non-empty list, whatever its objects
fetch_countries_data(data) ==
    IF data # None /\ data.type = "list" /\ Len(data.items) > 0
    THEN data ELSE None

\* DataFetcher.fetch_us_states_data
fetch_us_states_data(data) ==
    IF data # None /\ data.type = "list" /\ Len(data.items) > 0
    THEN data ELSE None

\* the test of _get_major_countries raises a TypeError when population is a
\* null or a string, or when population is small and cases is one
major_test_raises(country) ==
    LET population == dict_get(country, "population", Number(0))
        cases == dict_get(country, "cases", Number(0))
    IN  \/ ~IsInt(population)
        \/ population.id <= 10000000 /\ ~IsInt(cases)

\* (population > 10000000 or cases > 100000) and country_name, with known
\* coordinates
is_major(country) ==
    LET population == dict_get(country, "population", Number(0))
        cases == dict_get(country, "cases", Number(0))
        country_name == dict_get(country, "country", "")
    IN  /\ population.id > 10000000 \/ cases.id > 100000
        /\ country_name # ""
        /\ get_country_coordinates(country_name) # Skipped

\* country.copy() updated with the coordinates
country_info(country) ==
    LET coordinates == get_country_coordinates(dict_get(country, "country", ""))
    IN  [f \in (DOMAIN country) \cup {"lat", "lon"} |->
            IF f = "lat" THEN coordinates.lat
            ELSE IF f = "lon" THEN coordinates.lon ELSE country[f]]

\* the stable descending order of [key, item] pairs with integer keys
RECURSIVE sorted_pairs(_)
sorted_pairs(pairs) ==
    IF pairs = <<>> THEN <<>>
    ELSE LET n == Len(pairs)
             sorted == sorted_pairs(SubSeq(pairs, 1, n - 1))
             x == pairs[n]
             before == SelectSeq(sorted, LAMBDA y : y.key >= x.key)
             after == SelectSeq(sorted, LAMBDA y : y.key < x.key)
         IN  before \o <<x>> \o after

\* list.sort(key=..., reverse=True) by an integer key: stable, largest first;
\* keys[i] is the key of list[i]
sort_reverse(list, keys) ==
    LET sorted == sorted_pairs([i \in 1..Len(list) |-> [key |-> keys[i], item |-> list[i]]])
    IN  [i \in 1..Len(list) |-> sorted[i].item]

\* DataFetcher._get_major_countries: the list of country_infos, or Raised when the
\* test or the sort compared a null or a string with a number
get_major_countries(countries_data) ==
    LET raises == \E i \in 1..Len(countries_data) : major_test_raises(countries_data[i])
        chosen == SelectSeq(countries_data, is_major)
        major_countries == [i \in 1..Len(chosen) |-> country_info(chosen[i])]
        key(x) == dict_get(x, "cases", Number(0))
        take(list, limit) == SubSeq(list, 1, min(Len(list), limit))
        sort_raises == /\ Len(major_countries) >= 2
                       /\ \/ \E i \in 1..Len(major_countries) : key(major_countries[i]) = None
                          \/ \E i, j \in 1..Len(major_countries) :
                                key(major_countries[i]).type # key(major_countries[j]).type
    IN  IF raises \/ sort_raises THEN Raised
        ELSE JsonList(take(sort_reverse(major_countries,
                      [i \in 1..Len(major_countries) |-> key(major_countries[i]).id]), 50))

\* the records a loop of fetch_major_cities_data appends: those not None
appended(records) == SelectSeq(records, LAMBDA r : r # Skipped)

\* DataProcessor.calculate_infection_rate: round(cases / population * 100000, 2),
\* in hundredths (round half to even), 0.0 without a positive population
calculate_infection_rate(cases, population) ==
    IF population <= 0 THEN 0
    ELSE LET d == muldiv(cases, 10000000, population)
         IN  IF 2 * d.r > population \/ (2 * d.r = population /\ d.q % 2 = 1)
             THEN d.q + 1 ELSE d.q

\* get_risk_level with strict thresholds
get_risk_level_strict(infection_rate) ==
    IF infection_rate > 500000 THEN "critical"
    ELSE IF infection_rate > 200000 THEN "high"
    ELSE IF infection_rate > 50000 THEN "medium"
    ELSE "low"

\* DataProcessor.get_risk_level, on a rate in hundredths
get_risk_level(infection_rate) ==
    IF infection_rate >= 500000 THEN "critical"
    ELSE IF infection_rate >= 200000 THEN "high"
    ELSE IF infection_rate >= 50000 THEN "medium"
    ELSE "low"

\* int(...) of clean_city_data raises on a null (TypeError) or on a
\* non-numeric string (ValueError)
clean_raises(location_data) ==
    \E f \in {"population", "cases", "deaths", "recovered"} : ~IsInt(location_data[f])

\* DataProcessor.clean_city_data, the fields the pipeline's contract is about
clean_city_data(location_data) ==
    LET population == location_data.population.id
        total_cases == location_data.cases.id
        deaths == location_data.deaths.id
        recovered == location_data.recovered.id
        raw_active == max(0, total_cases - deaths - recovered)
        active == IF low_recovery_rate(recovered, total_cases)
                  THEN min(raw_active, int_mul(population, 2, 100))
                  ELSE raw_active
        infection_rate == calculate_infection_rate(active, population)
    IN  [type |-> location_data.type, name |-> location_data.name,
         country |-> location_data.country,
         latitude |-> location_data.lat, longitude |-> location_data.lon,
         population |-> population, cases |-> total_cases, deaths |-> deaths,
         recovered |-> recovered, active |-> active,
         estimated |-> location_data.estimated,
         estimation |-> location_data.estimation,
         infection_rate |-> infection_rate,
         risk_level |-> get_risk_level(infection_rate),
         pre |-> location_data.pre]

\* DataProcessor.validate_city_data (coordinates in millionths of a degree)
validate_city_data(city_data) ==
    /\ -90000000 <= city_data.latitude /\ city_data.latitude <= 90000000
    /\ -180000000 <= city_data.longitude /\ city_data.longitude <= 180000000
    /\ ~(city_data.population <= 0 \/ city_data.cases < 0)

\* the loop of process_cities_data: the cleaned records that validate
cleaned_valid(raw_cities_data) ==
    LET kept == SelectSeq(raw_cities_data,
                    LAMBDA r : ~clean_raises(r) /\ validate_city_data(clean_city_data(r)))
    IN  [i \in 1..Len(kept) |-> clean_city_data(kept[i])]

\* process_cities_data without its sort
process_cities_data_unsorted(raw_cities_data) == cleaned_valid(raw_cities_data)

\* DataProcessor.process_cities_data
process_cities_data(raw_cities_data) ==
    LET processed_cities == cleaned_valid(raw_cities_data)
    IN  sort_reverse(processed_cities,
            [i \in 1..Len(processed_cities) |-> processed_cities[i].infection_rate])

\* ------------------------------------------------------- upstream payloads
\* a well-formed object of /countries or /states
Country(name, population, cases, deaths, recovered, active) ==
    [country |-> name, population |-> Number(population), cases |-> Number(cases),
     deaths |-> Number(deaths), recovered |-> Number(recovered), active |-> Number(active)]
State(name, population, cases, deaths, recovered, active) ==
    [state |-> name, population |-> Number(population), cases |-> Number(cases),
     deaths |-> Number(deaths), recovered |-> Number(recovered), active |-> Number(active)]

\* the objects /countries is tried with: plausible figures with a low and with
\* a realistic recovery share, a very large and a very small epidemic, figures
\* that do not add up, an official name that needs the alias, a population of
\* zero, and objects with a null, a string or a missing field
CountryObjects ==
    { Country("USA", 330000000, 10000000, 200000, 500000, 9300000),
      Country("USA", 330000000, 100000000, 1000000, 9000000, 90000000),
      Country("USA", 330000000, 500, 10, 20, 470),
      Country("Canada", 38000000, 4000000, 50000, 3900000, 50000),
      Country("Brazil", 210000000, 1000, 600, 700, 0),
      Country("Iran", 0, 200000, 100, 199000, 900),
      [country |-> "United Kingdom", population |-> Number(67000000), cases |-> Str,
       deaths |-> Number(0), recovered |-> Number(0), active |-> Number(0)],
      [country |-> "France", population |-> None, cases |-> Number(100),
       deaths |-> Number(1), recovered |-> Number(90), active |-> Number(9)],
      [country |-> "Germany", population |-> Number(83000000)] }

\* the objects /states is tried with
StateObjects ==
    { State("New York", 19450000, 2000000, 50000, 1900000, 50000),
      State("New York", 19450000, 2000000, 1000, 0, 1999000),
      State("Texas", 29000000, 100, 50, 80, 0),
      State("California", 20000001, 1500000, 0, 500000, 1000000),
      State("Nevada", 0, 10, 0, 5, 5),
      State("Alaska", 49, 1, 0, 0, 1),
      [state |-> "Ohio", population |-> Number(11700000), cases |-> Number(0),
       deaths |-> Number(0), recovered |-> None, active |-> Number(0)],
      [state |-> "Utah", population |-> Number(3200000), cases |-> None,
       deaths |-> Number(0), recovered |-> Number(0), active |-> Number(0)] }

\* the sequences of at most n objects
Lists(objects, n) == UNION {[1..k -> objects] : k \in 0..n}

\* what fetch_with_retry can return for an endpoint: None after the retries,
\* a JSON object where an array is expected, or an array of objects
CountryPayloads ==
    {None, JsonDict([message |-> Str])} \cup
    {JsonList(items) : items \in Lists(CountryObjects, MaxCountries)}
StatePayloads ==
    {None, JsonDict([message |-> Str])} \cup
    {JsonList(items) : items \in Lists(StateObjects, MaxStates)}
GlobalPayloads ==
    { None, JsonList(<<>>),
      JsonDict([cases |-> Number(700000000), deaths |-> Number(7000000),
                recovered |-> Number(600000000), updated |-> Number(1700000000)]),
      JsonDict([cases |-> Number(700000000), deaths |-> Number(7000000),
                updated |-> Number(1700000000)]) }

\* the payloads get_data_summary is tried with for the two list endpoints
SummaryPayloads ==
    {None, JsonList(<<>>), JsonList(<<[country |-> "Germany", population |-> Number(83000000)]>>)}

\* --------------------------------------------------------------- the run
\* before the first call
InitPipe ==
    /\ pipe = [pc |-> "start", global |-> None, countries |-> None, states |-> None,
               gets |-> <<>>, countries_data |-> None, us_states_data |-> None,
               locations |-> <<>>, raw |-> None, processed |-> <<>>,
               result |-> None, summary |-> <<>>]
    /\ now = 0
    /\ max_age_hours = DefaultMaxAgeHours
    /\ memory_cache = Empty
    /\ cache_metadata = Empty
    /\ files = Empty
    /\ last = NoCall
    /\ fetch = IdleFetch
    /\ app = IdleApp
    /\ thread = IdleThreads
    /\ resp = NoResp
    /\ produced = 0
    /\ lock = Unlocked
    /\ deleted = {}
    /\ global_cache = None
    /\ proc = IdleProc

\* the variables a run of the pipeline leaves alone
pipeUnchanged ==
    UNCHANGED <<now, max_age_hours, memory_cache, cache_metadata, files, last,
                fetch, app, thread, resp, produced, lock,
                deleted, global_cache, proc>>

\* fetch_major_cities_data, lines 88-93: the countries fetch; without countries
\* the function returns [] at once
fm_fetch_countries(payload) ==
    /\ pipe.pc = "start"
    /\ LET countries_data == fetch_countries_data(payload)
       IN  pipe' = [pipe EXCEPT !.countries = payload,
                                !.gets = Append(@, "countries"),
                                !.countries_data = countries_data,
                                !.raw = IF countries_data = None THEN JsonList(<<>>) ELSE @,
                                !.pc = IF countries_data = None THEN "fetched" ELSE "states"]
    /\ pipeUnchanged

\* a variant that gives up when the states fetch fails
fm_fetch_states_required(payload) ==
    /\ pipe.pc = "states"
    /\ LET us_states_data == fetch_us_states_data(payload)
       IN  pipe' = [pipe EXCEPT !.states = payload,
                                !.gets = Append(@, "states"),
                                !.us_states_data = us_states_data,
                                !.raw = IF us_states_data = None THEN JsonList(<<>>) ELSE @,
                                !.pc = IF us_states_data = None THEN "fetched" ELSE "cities"]
    /\ pipeUnchanged

\* lines 95-100: the states fetch and the state_lookup built from it
fm_fetch_states(payload) ==
    /\ pipe.pc = "states"
    /\ pipe' = [pipe EXCEPT !.states = payload,
                            !.gets = Append(@, "states"),
                            !.us_states_data = fetch_us_states_data(payload),
                            !.pc = "cities"]
    /\ pipeUnchanged

\* lines 102-108: one record per reference city that could be processed
fm_cities ==
    /\ pipe.pc = "cities"
    /\ LET processed_city(i) == process_city_data(major_world_cities[i],
                                    pipe.countries_data.items, pipe.us_states_data)
       IN  pipe' = [pipe EXCEPT
               !.locations = @ \o appended([i \in 1..Len(major_world_cities) |->
                                               processed_city(i)]),
               !.pc = "state_records"]
    /\ pipeUnchanged

\* lines 110-115: one record per state object that could be processed
fm_states ==
    /\ pipe.pc = "state_records"
    /\ LET states == IF pipe.us_states_data = None THEN <<>>
                     ELSE pipe.us_states_data.items
       IN  pipe' = [pipe EXCEPT
               !.locations = @ \o appended([i \in 1..Len(states) |->
                                               process_state_data(states[i])]),
               !.pc = "country_records"]
    /\ pipeUnchanged

\* lines 117-125: one record per major country; an exception of
\* _get_major_countries leaves fetch_major_cities_data
fm_countries ==
    /\ pipe.pc = "country_records"
    /\ LET major_countries == get_major_countries(pipe.countries_data.items)
           country_locations ==
               appended([i \in 1..Len(major_countries.items) |->
                            process_country_data(major_countries.items[i])])
       IN  pipe' = IF major_countries = Raised
                   THEN [pipe EXCEPT !.raw = Raised, !.pc = "fetched"]
                   ELSE [pipe EXCEPT !.locations = @ \o country_locations,
                                     !.raw = JsonList(pipe.locations \o country_locations),
                                     !.pc = "fetched"]
    /\ pipeUnchanged

\* get_covid_tracker_data, lines 43-61, on what fetch_major_cities_data came
\* to: None on an exception or an empty list, else the processed dataset
gt_process ==
    /\ pipe.pc = "fetched"
    /\ pipe' = IF pipe.raw = Raised \/ pipe.raw.items = <<>>
               THEN [pipe EXCEPT !.result = None, !.pc = "done"]
               ELSE LET processed_data == process_cities_data(pipe.raw.items)
                    IN  [pipe EXCEPT !.processed = processed_data,
                                     !.result = [type |-> "dict", cities |-> processed_data],
                                     !.pc = "done"]
    /\ pipeUnchanged

\* DataFetcher.get_data_summary: the three wrappers, each on its endpoint
get_data_summary(global, countries, states) ==
    /\ pipe.pc = "start"
    /\ pipe' = [pipe EXCEPT
            !.global = global, !.countries = countries, !.states = states,
            !.gets = <<"all", "countries", "states">>,
            !.summary = <<fetch_global_data(global) # None,
                          fetch_countries_data(countries) # None,
                          fetch_us_states_data(states) # None>>,
            !.pc = "summary"]
    /\ pipeUnchanged

NextPipe ==
    \/ \E payload \in CountryPayloads : fm_fetch_countries(payload)
    \/ \E payload \in StatePayloads : fm_fetch_states(payload)
    \/ fm_cities
    \/ fm_states
    \/ fm_countries
    \/ gt_process
    \/ \E global \in GlobalPayloads, countries \in SummaryPayloads, states \in SummaryPayloads :
          get_data_summary(global, countries, states)

SpecPipe == InitPipe /\ [][NextPipe]_vars

\* ------------------------------------------------------ claims on the run
\* the elements of a list
records_of(list) == {list[i] : i \in 1..Len(list)}

\* the run is past the loops of fetch_major_cities_data
fetched == pipe.pc \in {"fetched", "done"}

\* the five figures of an upstream object are integers where present
integer_figures(obj) ==
    \A f \in {"population", "cases", "deaths", "recovered", "active"} :
        IsInt(dict_get(obj, f, Number(0)))

\* the reference cities whose figures come from the country alone: the country
\* is found, its figures are integers, and no state object matches
country_based(city) ==
    LET country == country_lookup(pipe.countries_data.items, city.country)
    IN  /\ country # Skipped
        /\ integer_figures(country)
        /\ \/ city.country # "USA"
           \/ city.state = ""
           \/ state_lookup(pipe.us_states_data, city.state) = Skipped

\* the records of well-formed inputs are in the list fetch_major_cities_data
\* returns: the country-based cities and the major countries
well_formed_survive ==
    /\ \A i \in 1..Len(major_world_cities) :
          country_based(major_world_cities[i]) =>
            \E rec \in records_of(pipe.raw.items) :
                rec.type = "city" /\ rec.name = major_world_cities[i].name
    /\ \A country \in records_of(pipe.countries_data.items) :
          (integer_figures(country) /\ is_major(country)) =>
            \E rec \in records_of(pipe.raw.items) :
                rec.type = "country" /\ rec.name = country.country

\* C11: a wrapper returns null when its payload lacks a required field: an
\* object of /countries without country, cases, deaths or recovered, a /all
\* object without cases, deaths, recovered or updated
C11_ShapeCheck ==
    /\ (/\ pipe.pc # "start"
        /\ pipe.countries # None
        /\ pipe.countries.type = "list"
        /\ \E obj \in records_of(pipe.countries.items) : ~validate_country_data(obj))
       => IF pipe.pc = "summary" THEN ~pipe.summary[2] ELSE pipe.countries_data = None
    /\ (/\ pipe.pc = "summary"
        /\ pipe.global # None
        /\ ~validate_global_data(pipe.global)) => ~pipe.summary[1]

\* C12: without countries fetch_major_cities_data returns [] after the one
\* GET of /countries and with no record built; when only the states fetch
\* fails, the city and country records of the well-formed objects are returned
C12_NoPartialDataset ==
    /\ (fetched /\ pipe.countries_data = None) =>
          /\ pipe.raw = JsonList(<<>>)
          /\ pipe.gets = <<"countries">>
          /\ pipe.locations = <<>>
    /\ (fetched /\ pipe.countries_data # None /\ pipe.us_states_data = None
               /\ pipe.raw # Raised) => well_formed_survive

\* the states fetch failed and records were still returned
C12_Witness ==
    /\ pipe.pc = "fetched"
    /\ pipe.gets = <<"countries", "states">>
    /\ pipe.us_states_data = None
    /\ pipe.raw # Raised
    /\ \E rec \in records_of(pipe.raw.items) : rec.type = "city"
    /\ \E rec \in records_of(pipe.raw.items) : rec.type = "country"

\* C13: a malformed upstream object costs only its own record:
\* fetch_major_cities_data returns normally and the records of the well-formed
\* objects are in its result
C13_RecordIsolation ==
    (fetched /\ pipe.countries_data # None) =>
        (pipe.raw # Raised /\ well_formed_survive)

\* C14: every record of the dataset has 0 <= deaths + recovered <= cases and
\* active = max(0, cases - deaths - recovered)
C14_Consistency ==
    \A rec \in records_of(pipe.processed) :
        /\ 0 <= rec.deaths + rec.recovered
        /\ rec.deaths + rec.recovered <= rec.cases
        /\ rec.active = max(0, rec.cases - rec.deaths - rec.recovered)

\* C15: every record of the dataset has active <= 0.02 x population,
\* cases <= 0.3 x population, deaths <= 0.05 x cases, and cases >= 100 when
\* cases > 0
C15_Caps ==
    \A rec \in records_of(pipe.processed) :
        /\ 100 * rec.active <= 2 * rec.population
        /\ 10 * rec.cases <= 3 * rec.population
        /\ 100 * rec.deaths <= 5 * rec.cases
        /\ rec.cases > 0 => rec.cases >= 100

\* the recovery test applied to the record's figures before the correction
corrected(rec) ==
    /\ IsInt(rec.pre.cases) /\ IsInt(rec.pre.recovered)
    /\ rec.pre.cases.id > 0
    /\ 10 * rec.pre.recovered.id < rec.pre.cases.id

\* C16: a record whose figures before the correction had cases > 0 and
\* recovered / cases < 0.1 is flagged estimated, its estimation is its
\* recovered count and at most 0.95 x cases; no record carries an estimation
\* without the flag.  Checked on the raw and on the canonical records
C16_RecoveryCorrection ==
    /\ \A rec \in records_of(pipe.locations) :
          /\ corrected(rec) =>
                /\ rec.estimated
                /\ rec.estimation = rec.recovered
                /\ rec.estimation.id <= int_mul(rec.cases.id, 95, 100)
          /\ rec.estimation # None => rec.estimated
    /\ \A rec \in records_of(pipe.processed) :
          /\ corrected(rec) =>
                /\ rec.estimated
                /\ rec.estimation = Number(rec.recovered)
                /\ rec.estimation.id <= int_mul(rec.cases, 95, 100)
          /\ rec.estimation # None => rec.estimated

\* the dataset holds a corrected state record and a corrected city record
C16_Witness ==
    /\ pipe.pc = "done"
    /\ \E rec \in records_of(pipe.processed) :
          rec.type = "state" /\ corrected(rec) /\ rec.estimation = Number(rec.recovered)
    /\ \E rec \in records_of(pipe.processed) :
          rec.type = "city" /\ corrected(rec) /\ rec.estimated

\* the reference cities of a country with regions (the USA rows that name a
\* state) for which no state object matches, and whose country is found with
\* integer figures
unmatched_regional(city) ==
    city.country = "USA" /\ city.state # "" /\ country_based(city)

\* 0.15 x country cases and 0.3 x city population bound the record's cases
within_caps(rec, city, country) ==
    /\ 100 * rec.cases <= 15 * country.cases.id
    /\ rec.cases <= int_mul(city.population, 3, 10)

\* C17 as stated: on a refresh that returned a dataset, every such city whose
\* country has cases > 0 and recovered / cases < 0.1 has a record with
\* estimated = true, cases <= min(0.3 x cityPopulation, 0.15 x countryCases)
\* and deaths + recovered <= cases
C17_CityEstimate ==
    (pipe.pc = "done" /\ pipe.result # None) =>
        \A i \in 1..Len(major_world_cities) :
            LET city == major_world_cities[i]
                country == country_lookup(pipe.countries_data.items, city.country)
            IN  (/\ unmatched_regional(city)
                 /\ country.cases.id > 0
                 /\ 10 * country.recovered.id < country.cases.id) =>
                    \E rec \in records_of(pipe.processed) :
                        /\ rec.type = "city" /\ rec.name = city.name
                        /\ rec.estimated
                        /\ within_caps(rec, city, country)
                        /\ rec.deaths + rec.recovered <= rec.cases

\* what holds of the record of such a city: the caps of 0.3 x cityPopulation
\* always and of 0.15 x countryCases above the floor of 100 cases,
\* deaths + recovered <= cases, and the flag exactly when the allocated
\* recovered count is under a tenth of the record's cases
city_estimate(rec, city, country) ==
    /\ rec.cases <= int_mul(city.population, 3, 10)
    /\ rec.cases > 100 => 100 * rec.cases <= 15 * dict_get(country, "cases", Number(0)).id
    /\ rec.deaths + rec.recovered <= rec.cases
    /\ rec.estimated <=> 10 * rec.pre.recovered.id < rec.cases
    /\ rec.estimated => rec.estimation = Number(rec.recovered)

\* C17, amended: _process_city_data yields a record for every such city, and
\* that record, raw and canonical, satisfies city_estimate
C17_CityEstimateAmended ==
    \A i \in 1..Len(major_world_cities) :
        LET city == major_world_cities[i]
            country == country_lookup(pipe.countries_data.items, city.country)
            raw_view(rec) == [cases |-> rec.cases.id, deaths |-> rec.deaths.id,
                              recovered |-> rec.recovered.id, pre |-> rec.pre,
                              estimated |-> rec.estimated, estimation |-> rec.estimation]
        IN  (/\ pipe.pc \in {"state_records", "country_records", "fetched", "done"}
             /\ pipe.countries_data # None
             /\ unmatched_regional(city)) =>
                /\ \E rec \in records_of(pipe.locations) :
                      /\ rec.type = "city" /\ rec.name = city.name
                      /\ city_estimate(raw_view(rec), city, country)
                /\ \A rec \in records_of(pipe.processed) :
                      (rec.type = "city" /\ rec.name = city.name) =>
                          city_estimate(rec, city, country)

\* the spec's case: USA with 10,000,000 cases, 200,000 deaths and 500,000
\* recovered, no state object for New York; the dataset has New York with
\* 505,261 cases, flagged estimated
C17_Witness ==
    /\ pipe.pc = "done"
    /\ pipe.countries = JsonList(<<Country("USA", 330000000, 10000000, 200000, 500000, 9300000)>>)
    /\ pipe.us_states_data = None
    /\ \E rec \in records_of(pipe.processed) :
          /\ rec.type = "city" /\ rec.name = "New York"
          /\ rec.population = 8336817
          /\ rec.cases = 505261
          /\ rec.estimated
          /\ rec.deaths + rec.recovered <= rec.cases

\* int(x * min(k x city_population / population, cap)) for x >= 0, with
\* k = k2 / 2 and cap = cap100 / 100
allocated(x, k2, cap100, city_population, population) ==
    min(int_mul(x, k2 * city_population, 2 * population), int_mul(x, cap100, 100))

\* the state object of a city's region, Skipped when the city names no state
\* or no object of /states carries the name
region_of(city) ==
    IF city.country = "USA" /\ city.state # ""
    THEN state_lookup(pipe.us_states_data, city.state)
    ELSE Skipped

\* the factor k (doubled) and the ceiling (in hundredths) the claim gives a
\* city: 1.5 and 0.3 with a regional record, 2 and 0.15 for a city of a region
\* without one, 3 and 0.2 otherwise
claimed_ratio(city) ==
    IF region_of(city) # Skipped THEN [k2 |-> 3, cap100 |-> 30]
    ELSE IF city.country = "USA" /\ city.state # "" THEN [k2 |-> 4, cap100 |-> 15]
    ELSE [k2 |-> 6, cap100 |-> 20]

\* the cities the claim covers: the country is found, the figures of the
\* country and of the regional record are integers, and the population the
\* ratio divides by is positive
allocatable(city) ==
    LET country == country_lookup(pipe.countries_data.items, city.country)
        base == IF region_of(city) # Skipped THEN region_of(city) ELSE country
    IN  /\ country # Skipped
        /\ integer_figures(country) /\ integer_figures(base)
        /\ dict_get(base, "population", Number(1)).id > 0

\* C28 (on the records the loop over the reference cities has just appended):
\* the record of a city is built from the figures of its regional
\* record scaled by min(1.5 x cityPopulation / regionPopulation, 0.3) when
\* that record is available, from the country's figures scaled by
\* min(2 x cityPopulation / countryPopulation, 0.15) when the city has a
\* region without a record, and from the country's figures scaled by
\* min(3 x cityPopulation / countryPopulation, 0.2) otherwise; cases, deaths
\* and recovered are scaled by the one ratio before the bounds are applied
C28_RatioSelection ==
    (pipe.pc = "state_records" /\ pipe.countries_data # None) =>
        \A i \in 1..Len(major_world_cities) :
            LET city == major_world_cities[i]
                country == country_lookup(pipe.countries_data.items, city.country)
                base == IF region_of(city) # Skipped THEN region_of(city) ELSE country
                r == claimed_ratio(city)
                share(f) == allocated(dict_get(base, f, Number(0)).id, r.k2, r.cap100,
                                      city.population,
                                      dict_get(base, "population", Number(1)).id)
                fig == city_figures(city.population, share("cases"), share("deaths"),
                                    share("recovered"))
            IN  allocatable(city) =>
                    \E rec \in records_of(pipe.locations) :
                        /\ rec.type = "city" /\ rec.name = city.name
                        /\ rec.pre.recovered = Number(share("recovered"))
                        /\ rec.cases = Number(fig.cases)
                        /\ rec.deaths = Number(fig.deaths)
                        /\ rec.recovered = Number(fig.recovered)
                        /\ rec.active = Number(fig.active)

\* one run takes the three branches: New York from its state record, Los
\* Angeles from the USA because /states has no California, Toronto from Canada
C28_Witness ==
    /\ pipe.pc = "state_records"
    /\ pipe.countries_data # None
    /\ \A name \in {"New York", "Los Angeles", "Toronto"} :
          \E i \in 1..Len(major_world_cities) :
              /\ major_world_cities[i].name = name
              /\ allocatable(major_world_cities[i])
              /\ \E rec \in records_of(pipe.locations) :
                    rec.type = "city" /\ rec.name = name /\ rec.cases.id > 100
    /\ \E i \in 1..Len(major_world_cities) :
          major_world_cities[i].name = "New York" /\ region_of(major_world_cities[i]) # Skipped
    /\ \E i \in 1..Len(major_world_cities) :
          major_world_cities[i].name = "Los Angeles" /\ region_of(major_world_cities[i]) = Skipped

\* C29: a city record built from non-negative figures has cases <= 0.3 x
\* cityPopulation, no cases when the count allocated to the city is 0,
\* deaths <= 0.05 x cases, active <= 0.02 x cityPopulation, and
\* cases = deaths + recovered + active when active sits at that ceiling
C29_CityBounds ==
    (pipe.pc = "state_records" /\ pipe.countries_data # None) =>
        \A i \in 1..Len(major_world_cities) :
            LET city == major_world_cities[i]
                country == country_lookup(pipe.countries_data.items, city.country)
                base == IF region_of(city) # Skipped THEN region_of(city) ELSE country
                r == claimed_ratio(city)
                derived_cases == allocated(dict_get(base, "cases", Number(0)).id,
                                           r.k2, r.cap100, city.population,
                                           dict_get(base, "population", Number(1)).id)
            IN  \A rec \in records_of(pipe.locations) :
                    (rec.type = "city" /\ rec.name = city.name /\ allocatable(city)) =>
                        /\ rec.cases.id <= int_mul(city.population, 3, 10)
                        /\ derived_cases = 0 => rec.cases.id = 0
                        /\ rec.deaths.id <= int_mul(rec.cases.id, 5, 100)
                        /\ rec.active.id <= int_mul(city.population, 2, 100)
                        /\ rec.active.id = int_mul(city.population, 2, 100) =>
                              rec.cases.id = rec.deaths.id + rec.recovered.id + rec.active.id

\* the canonical records made from the raw record rec: same type, name and
\* figures before the correction, same cases, deaths and recovered
normalized(rec) ==
    {p \in records_of(pipe.processed) :
        /\ p.type = rec.type /\ p.name = rec.name /\ p.pre = rec.pre
        /\ p.cases = rec.cases.id /\ p.deaths = rec.deaths.id
        /\ p.recovered = rec.recovered.id}

\* C30: every canonical record has active = max(0, cases - deaths -
\* recovered), and the canonical record of a raw record the fetcher corrected
\* (a city record, or a record flagged estimated) has the fetcher's active
C30_NormalizerAgrees ==
    (pipe.pc = "done" /\ pipe.result # None) =>
        /\ \A p \in records_of(pipe.processed) :
              p.active = max(0, p.cases - p.deaths - p.recovered)
        /\ \A rec \in records_of(pipe.raw.items) :
              (rec.type = "city" \/ rec.estimated) =>
                  \A p \in normalized(rec) : p.active = rec.active.id

\* occurrences of x in a list
count(list, x) == Cardinality({i \in 1..Len(list) : list[i] = x})

\* C18: the dataset's records are exactly the cleaned records that validate,
\* each as often as the raw list yields it, in non-increasing order of
\* infection rate; records that are invalid or whose cleaning raises are left
\* out and the batch still returns
C18_Ordering ==
    (pipe.pc = "done" /\ pipe.result # None) =>
        /\ \A i \in 1..(Len(pipe.processed) - 1) :
              pipe.processed[i].infection_rate >= pipe.processed[i + 1].infection_rate
        /\ \A rec \in records_of(pipe.processed) :
              /\ validate_city_data(rec)
              /\ count(pipe.processed, rec) =
                    Cardinality({i \in 1..Len(pipe.raw.items) :
                        /\ ~clean_raises(pipe.raw.items[i])
                        /\ clean_city_data(pipe.raw.items[i]) = rec})
        /\ \A i \in 1..Len(pipe.raw.items) :
              LET r == pipe.raw.items[i]
              IN  (~clean_raises(r) /\ validate_city_data(clean_city_data(r))) =>
                      clean_city_data(r) \in records_of(pipe.processed)

\* a dataset whose order differs from the raw order, from a raw list that had
\* an invalid record and a record whose cleaning raises
C18_Witness ==
    /\ pipe.pc = "done"
    /\ Len(pipe.processed) >= 2
    /\ \E i, j \in 1..Len(pipe.raw.items) :
          /\ i < j
          /\ ~clean_raises(pipe.raw.items[i]) /\ ~clean_raises(pipe.raw.items[j])
          /\ clean_city_data(pipe.raw.items[i]) \in records_of(pipe.processed)
          /\ clean_city_data(pipe.raw.items[i]).infection_rate
                < clean_city_data(pipe.raw.items[j]).infection_rate
    /\ \E r \in records_of(pipe.raw.items) : clean_raises(r)
    /\ \E r \in records_of(pipe.raw.items) :
          ~clean_raises(r) /\ ~validate_city_data(clean_city_data(r))

\* the band of a rate given as active per population, without rounding:
\* active / population x 100000 >= 5000, 2000, 500
exact_risk_level(active, population) ==
    IF 20 * active >= population THEN "critical"
    ELSE IF 50 * active >= population THEN "high"
    ELSE IF 200 * active >= population THEN "medium"
    ELSE "low"

\* C19 as stated: the risk level is the band of active / population x 100000
C19_RiskLevel ==
    \A rec \in records_of(pipe.processed) :
        rec.risk_level = exact_risk_level(rec.active, rec.population)

\* C19, amended: the infection rate is active / population x 100000 rounded
\* to two decimals, and the risk level is the band of that rounded rate
C19_RiskLevelRounded ==
    \A rec \in records_of(pipe.processed) :
        LET d == muldiv(rec.active, 10000000, rec.population)
            rate == rec.infection_rate
        IN  /\ 2 * d.r < rec.population => rate = d.q
            /\ 2 * d.r > rec.population => rate = d.q + 1
            /\ rate \in {d.q, d.q + 1}
            /\ rec.risk_level = "critical" <=> rate >= 500000
            /\ rec.risk_level = "high" <=> (200000 <= rate /\ rate < 500000)
            /\ rec.risk_level = "medium" <=> (50000 <= rate /\ rate < 200000)
            /\ rec.risk_level = "low" <=> rate < 50000

\* a record whose rate of 4999.99975 rounds to 5000.00 and is critical
C19_Witness ==
    \E rec \in records_of(pipe.processed) :
        /\ rec.infection_rate = 500000
        /\ rec.risk_level = "critical"
        /\ 20 * rec.active < rec.population

\* ----------------------------------------------------------------- SpecProc
\* the display helpers of DataProcessor applied to a number and to a batch of
\* records: format_number, get_marker_color, get_statistics_summary
\* 2^k mod d
RECURSIVE pow2mod(_, _)
pow2mod(k, d) == IF k = 0 THEN 1 % d ELSE (2 * pow2mod(k - 1, d)) % d

\* floor(log2(x)) for x >= 1
RECURSIVE ilog2(_)
ilog2(x) == IF x < 2 THEN 0 ELSE 1 + ilog2(x \div 2)

\* number / d in Python is the double nearest to the quotient: 1 when that
\* double is above the exact quotient, -1 when below, 0 when the quotient is
\* a double (53 significant bits)
float_error(number, d) ==
    LET k == 52 - ilog2(number \div d)
        r == muldiv(number % d, pow2mod(k, d), d).r
    IN  IF r = 0 THEN 0 ELSE IF 2 * r > d THEN 1 ELSE -1

\* the text of a number: str(int) has tenth = -1 and no suffix
Text(whole, tenth, suffix) == [whole |-> whole, tenth |-> tenth, suffix |-> suffix]

\* f"{number / d:.1f}" followed by the suffix: the double is rounded to one
\* decimal, half to even on its exact value
one_decimal(number, d, suffix) ==
    LET unit == d \div 10
        q == number \div unit
        rem == number % unit
        up == \/ 2 * rem > unit
              \/ /\ 2 * rem = unit
                 /\ \/ float_error(number, d) > 0
                    \/ float_error(number, d) = 0 /\ q % 2 = 1
        tenths == IF up THEN q + 1 ELSE q
    IN  Text(tenths \div 10, tenths % 10, suffix)

\* DataProcessor.format_number, on a non-negative int
format_number(number) ==
    IF number >= 1000000000 THEN one_decimal(number, 1000000000, "B")
    ELSE IF number >= 1000000 THEN one_decimal(number, 1000000, "M")
    ELSE IF number >= 1000 THEN one_decimal(number, 1000, "K")
    ELSE Text(number, -1, "")

\* get_marker_color without the band of the critical rates
get_marker_color_no_critical(infection_rate) ==
    IF infection_rate >= 200000 THEN "#BD0026"
    ELSE IF infection_rate >= 100000 THEN "#E31A1C"
    ELSE IF infection_rate >= 50000 THEN "#FC4E2A"
    ELSE IF infection_rate >= 10000 THEN "#FD8D3C"
    ELSE "#FEB24C"

\* DataProcessor.get_marker_color, on a rate in hundredths
get_marker_color(infection_rate) ==
    IF infection_rate >= 500000 THEN "#800026"
    ELSE IF infection_rate >= 200000 THEN "#BD0026"
    ELSE IF infection_rate >= 100000 THEN "#E31A1C"
    ELSE IF infection_rate >= 50000 THEN "#FC4E2A"
    ELSE IF infection_rate >= 10000 THEN "#FD8D3C"
    ELSE "#FEB24C"

\* sum(...), max(...), min(...) of a list of ints
RECURSIVE sum(_)
sum(list) == IF list = <<>> THEN 0 ELSE list[1] + sum(Tail(list))
RECURSIVE max_of(_)
max_of(list) == IF Len(list) = 1 THEN list[1] ELSE max(list[1], max_of(Tail(list)))
RECURSIVE min_of(_)
min_of(list) == IF Len(list) = 1 THEN list[1] ELSE min(list[1], min_of(Tail(list)))

\* the tally of the loop over city['risk_level']
risk_distribution(cities_data) ==
    [level \in {"low", "medium", "high", "critical"} |->
        Cardinality({i \in 1..Len(cities_data) : cities_data[i].risk_level = level})]

\* get_statistics_summary that takes the extremes from the first record
get_statistics_summary_first(cities_data) ==
    IF cities_data = <<>>
    THEN [total_cities |-> 0, total_cases |-> 0, total_deaths |-> 0,
          total_recovered |-> 0, highest_infection_rate |-> 0,
          lowest_infection_rate |-> 0,
          risk_distribution |-> risk_distribution(<<>>)]
    ELSE [total_cities |-> Len(cities_data),
          total_cases |-> sum([i \in 1..Len(cities_data) |-> cities_data[i].cases]),
          total_deaths |-> sum([i \in 1..Len(cities_data) |-> cities_data[i].deaths]),
          total_recovered |-> sum([i \in 1..Len(cities_data) |-> cities_data[i].recovered]),
          highest_infection_rate |-> cities_data[1].infection_rate,
          lowest_infection_rate |-> cities_data[1].infection_rate,
          risk_distribution |-> risk_distribution(cities_data)]

\* DataProcessor.get_statistics_summary, without average_infection_rate and
\* generated_at; rates in hundredths
get_statistics_summary(cities_data) ==
    IF cities_data = <<>>
    THEN [total_cities |-> 0, total_cases |-> 0, total_deaths |-> 0,
          total_recovered |-> 0, highest_infection_rate |-> 0,
          lowest_infection_rate |-> 0,
          risk_distribution |-> risk_distribution(<<>>)]
    ELSE LET total_cases == sum([i \in 1..Len(cities_data) |-> cities_data[i].cases])
             total_deaths == sum([i \in 1..Len(cities_data) |-> cities_data[i].deaths])
             total_recovered == sum([i \in 1..Len(cities_data) |-> cities_data[i].recovered])
             infection_rates == [i \in 1..Len(cities_data) |-> cities_data[i].infection_rate]
         IN  [total_cities |-> Len(cities_data),
              total_cases |-> total_cases,
              total_deaths |-> total_deaths,
              total_recovered |-> total_recovered,
              total_cases_formatted |-> format_number(total_cases),
              total_deaths_formatted |-> format_number(total_deaths),
              total_recovered_formatted |-> format_number(total_recovered),
              highest_infection_rate |-> max_of(infection_rates),
              lowest_infection_rate |-> min_of(infection_rates),
              risk_distribution |-> risk_distribution(cities_data)]

\* a canonical record as clean_city_data builds it: risk_level and
\* marker_color come from its infection_rate
City(name, cases, deaths, recovered, infection_rate) ==
    [name |-> name, cases |-> cases, deaths |-> deaths, recovered |-> recovered,
     infection_rate |-> infection_rate,
     risk_level |-> get_risk_level(infection_rate),
     marker_color |-> get_marker_color(infection_rate)]

\* the records the batches are made of: a rate on each side of every
\* threshold of the two scales (99.99, 100, 500, 1000, 1999.99, 2000,
\* 4999.99, 5000 per 100000)
SampleCities ==
    << City("c1", 400, 3, 100, 9999), City("c2", 700, 0, 650, 10000),
       City("c3", 999, 40, 0, 50000), City("c4", 1, 1, 0, 100000),
       City("c5", 250000, 900, 1200, 199999), City("c6", 0, 0, 0, 200000),
       City("c7", 999000, 50, 998000, 499999), City("c8", 1234567, 2, 50, 500000) >>

\* the batches: every selection of the records above, in their order
CityLists ==
    {SelectSeq(SampleCities, LAMBDA c : c.name \in names) :
        names \in SUBSET {SampleCities[i].name : i \in 1..Len(SampleCities)}}

\* the numbers format_number is tried on: both sides of every threshold, the
\* examples of the documentation, halves that are and are not doubles, the
\* largest 32-bit int
Numbers ==
    {0, 7, 950, 999, 1000, 1049, 1050, 1150, 1250, 1500, 1750, 999949, 999950,
     999999, 1000000, 2300000, 999949999, 999950000, 999999999, 1000000000,
     1050000000, 2147483647}

\* the processor before any call
NoText == Text(-1, -1, "none")
NoSummary == [total_cities |-> -1]

InitProc ==
    /\ proc \in [pc : {"start"}, number : Numbers, cities_data : CityLists,
                 formatted : {NoText}, colors : {<<>>}, summary : {NoSummary}]
    /\ now = 0
    /\ max_age_hours = DefaultMaxAgeHours
    /\ memory_cache = Empty
    /\ cache_metadata = Empty
    /\ files = Empty
    /\ last = NoCall
    /\ fetch = IdleFetch
    /\ app = IdleApp
    /\ thread = IdleThreads
    /\ resp = NoResp
    /\ produced = 0
    /\ pipe = IdlePipe
    /\ lock = Unlocked
    /\ deleted = {}
    /\ global_cache = None

\* the variables the processor leaves alone
procUnchanged ==
    UNCHANGED <<cacheVars, fetch, app, thread, resp, produced, pipe, lock,
                deleted, global_cache>>

\* format_number(number)
pr_format_number ==
    /\ proc.formatted = NoText
    /\ proc' = [proc EXCEPT !.pc = "called", !.formatted = format_number(proc.number)]

\* get_marker_color(city['infection_rate']) for the records of the batch
pr_get_marker_color ==
    /\ proc.colors = <<>>
    /\ proc.cities_data # <<>>
    /\ proc' = [proc EXCEPT !.pc = "called", !.colors =
                  [i \in 1..Len(proc.cities_data) |->
                      get_marker_color(proc.cities_data[i].infection_rate)]]

\* get_statistics_summary(cities_data)
pr_get_statistics_summary ==
    /\ proc.summary = NoSummary
    /\ proc' = [proc EXCEPT !.pc = "called",
                            !.summary = get_statistics_summary(proc.cities_data)]

NextProc ==
    \/ pr_format_number /\ procUnchanged
    \/ pr_get_marker_color /\ procUnchanged
    \/ pr_get_statistics_summary /\ procUnchanged

SpecProc == InitProc /\ [][NextProc]_vars

\* the summary of the batch has been computed
summarized == proc.pc # "unused" /\ proc.summary # NoSummary

\* C31: the totals of the summary are the sums over the records, the highest
\* and lowest infection rate are the largest and smallest rate of a record,
\* the four risk counts add up to the number of records, and the summary of
\* the empty batch has 0 in every total, rate and count
C31_Summary ==
    summarized =>
        LET cities_data == proc.cities_data
            s == proc.summary
            n == Len(cities_data)
            counts == s.risk_distribution
        IN  /\ DOMAIN counts = {"low", "medium", "high", "critical"}
            /\ counts.low + counts.medium + counts.high + counts.critical = n
            /\ s.total_cases = sum([i \in 1..n |-> cities_data[i].cases])
            /\ s.total_deaths = sum([i \in 1..n |-> cities_data[i].deaths])
            /\ s.total_recovered = sum([i \in 1..n |-> cities_data[i].recovered])
            /\ n > 0 =>
                  /\ \E i \in 1..n : s.highest_infection_rate = cities_data[i].infection_rate
                  /\ \E i \in 1..n : s.lowest_infection_rate = cities_data[i].infection_rate
                  /\ \A i \in 1..n :
                        /\ cities_data[i].infection_rate <= s.highest_infection_rate
                        /\ cities_data[i].infection_rate >= s.lowest_infection_rate
            /\ n = 0 =>
                  /\ s.total_cases = 0 /\ s.total_deaths = 0 /\ s.total_recovered = 0
                  /\ s.highest_infection_rate = 0 /\ s.lowest_infection_rate = 0
                  /\ \A level \in DOMAIN counts : counts[level] = 0

\* a batch with records of different rates in three risk levels was summarized
C31_Witness ==
    /\ summarized
    /\ Len(proc.cities_data) >= 3
    /\ proc.summary.highest_infection_rate > proc.summary.lowest_infection_rate
    /\ Cardinality({l \in DOMAIN proc.summary.risk_distribution :
                       proc.summary.risk_distribution[l] > 0}) >= 3
    /\ proc.summary.highest_infection_rate # proc.cities_data[1].infection_rate

\* the divisor of the suffix
divisor(suffix) ==
    CASE suffix = "K" -> 1000 [] suffix = "M" -> 1000000 [] suffix = "B" -> 1000000000

\* C32: the text of n is the plain integer below 1000, and otherwise n
\* divided by 1e3, 1e6 or 1e9 to one decimal with the suffix K, M or B of its
\* range, the number in front of the suffix being below 1000
C32_FormatNumber ==
    (proc.pc # "unused" /\ proc.formatted # NoText) =>
        LET n == proc.number
            t == proc.formatted
            suffix == IF n >= 1000000000 THEN "B" ELSE IF n >= 1000000 THEN "M"
                      ELSE IF n >= 1000 THEN "K" ELSE ""
        IN  /\ t.suffix = suffix
            /\ suffix = "" => (t.whole = n /\ t.tenth = -1)
            /\ suffix # "" =>
                  LET unit == divisor(suffix) \div 10
                      tenths == 10 * t.whole + t.tenth
                  IN  /\ t.tenth \in 0..9
                      /\ tenths \in {n \div unit, n \div unit + 1}
                      /\ 2 * (n % unit) < unit => tenths = n \div unit
                      /\ 2 * (n % unit) > unit => tenths = n \div unit + 1
                      /\ t.whole < 1000
            /\ n = 950 => t = Text(950, -1, "")
            /\ n = 1500 => t = Text(1, 5, "K")
            /\ n = 2300000 => t = Text(2, 3, "M")
            /\ n = 1000000000 => t = Text(1, 0, "B")

\* the colours of the batch have been computed
colored == proc.pc # "unused" /\ proc.colors # <<>>

\* C33 as stated: the colours of a batch come from a palette of five
C33_FiveBands ==
    colored => Cardinality({proc.colors[i] : i \in 1..Len(proc.colors)}) <= 5

\* the six colours of get_marker_color, from the lowest band to the highest
Palette == <<"#FEB24C", "#FD8D3C", "#FC4E2A", "#E31A1C", "#BD0026", "#800026">>

\* the band of a rate: the number of thresholds (100, 500, 1000, 2000, 5000
\* per 100000) it has reached, plus one
band(infection_rate) ==
    1 + Cardinality({t \in {10000, 50000, 100000, 200000, 500000} : infection_rate >= t})

\* the rank of a risk level
risk_rank(risk_level) ==
    CASE risk_level = "low" -> 1 [] risk_level = "medium" -> 2
      [] risk_level = "high" -> 3 [] risk_level = "critical" -> 4

\* C33: every record gets the colour of the band of its infection rate, out
\* of a palette of six, and a record of risk level critical or high gets a
\* colour that no record of a lower risk level gets
C33_MarkerColor ==
    colored =>
        LET cities_data == proc.cities_data
            n == Len(cities_data)
        IN  /\ \A i \in 1..n : proc.colors[i] = Palette[band(cities_data[i].infection_rate)]
            /\ \A i \in 1..n : proc.colors[i] = cities_data[i].marker_color
            /\ \A i \in 1..n, j \in 1..n :
                  (/\ cities_data[i].risk_level \in {"critical", "high"}
                   /\ risk_rank(cities_data[j].risk_level) < risk_rank(cities_data[i].risk_level))
                  => proc.colors[i] # proc.colors[j]

\* a batch with a record in each of the six bands, critical and high ones
\* among them, has its colours
C33_Witness ==
    /\ colored
    /\ Cardinality({proc.colors[i] : i \in 1..Len(proc.colors)}) = 6
    /\ \E i \in 1..Len(proc.cities_data) : proc.cities_data[i].risk_level = "critical"
    /\ \E i \in 1..Len(proc.cities_data) : proc.cities_data[i].risk_level = "high"

=============================================================================
